---------------------------- MODULE Spec2Model ----------------------------
(***************************************************************************)
(* FHIR-webapp: the data-access layer (src/lib/fhir-service.ts) and the    *)
(* paged list view (src/components/patient-list.tsx).                      *)
(*                                                                         *)
(* The data-access functions keep no state of their own: each is an        *)
(* operator of its arguments and of the replies the server gives to the    *)
(* requests it sends, in the order it sends them.                          *)
(***************************************************************************)
EXTENDS Integers, Sequences, FiniteSets, TLC

VARIABLES
  call,      \* data-access layer: the call made last (function, arguments, server replies)
  ret,       \* data-access layer: what that call returned or threw
  \* PatientList: the context value and the props
  serverUrl, initialPatients, paginationData,
  \* PatientList: the component state (useState)
  patients, loading, error, pageSize, currentPage, totalPages, totalPatients,
  searchParams, countVerified, sortField, sortDirection, searchTerm, loadingCount,
  inflight,  \* PatientList: the pending fetchPatients / searchPatients calls, oldest first
  lastGood,  \* history: page size and sort of the load that succeeded last
  clicks,    \* history: the number of user actions so far
  tags,      \* history: how many requests the view has issued, the issue
             \* numbers of the pending ones, in the order of inflight, and how
             \* many times the parent has passed other props
  localStorage,     \* the "fhir-server-url" item of the browser's local storage
  encounterList,    \* EncounterList: expandedEncounter, conditions, loading
  conditionFetches, \* whether an EncounterList is mounted, and its calls of
                    \* fetchConditionsForEncounter: the rows with a pending call;
                    \* history: calls and expansions per row, mounts
  patientDetail,    \* PatientDetail: patient, encounters, conditions, loading, error,
                    \* notFound
  detailLoads,      \* selectedPatientId of Home, and the runs of loadPatientData
                    \* of the mounted detail that wait for a reply, oldest first;
                    \* history: how many runs were started
  createForm,       \* CreatePatient: the form (values, errors, isSubmitted), status,
                    \* organizations, loadingOrgs
  formPosts         \* activeTab of Home, the calls of CreatePatient that wait for
                    \* a reply and the success timers that wait; history: how
                    \* many submissions, POSTs and mounts there were

svcVars == <<call, ret>>
viewVars == <<serverUrl, initialPatients, paginationData, patients, loading, error,
              pageSize, currentPage, totalPages, totalPatients, searchParams,
              countVerified, sortField, sortDirection, searchTerm, loadingCount,
              inflight, lastGood, clicks, tags>>
listVars ==
  <<initialPatients, paginationData, patients, loading, error, pageSize, currentPage,
    totalPages, totalPatients, searchParams, countVerified, sortField, sortDirection,
    searchTerm, loadingCount, inflight, lastGood, clicks, tags>>
screenVars == <<encounterList, conditionFetches>>
detailVars == <<patientDetail, detailLoads>>
\* the screens next to the list and the encounters
formVars == <<createForm, formPosts>>
restVars == <<detailVars, formVars>>
appVars == <<localStorage, screenVars, restVars>>
vars == <<call, ret, serverUrl, initialPatients, paginationData, patients, loading,
          error, pageSize, currentPage, totalPages, totalPatients, searchParams,
          countVerified, sortField, sortDirection, searchTerm, loadingCount, inflight,
          lastGood, clicks, tags,
          localStorage, encounterList, conditionFetches, patientDetail, detailLoads,
          createForm, formPosts>>

(***************************************************************************)
(* Bounds of the model.                                                    *)
(***************************************************************************)
MaxTotal == 4      \* largest total a reply reports
MaxEntries == 3    \* longest entry list of a reply
MaxPageSize == 3   \* largest page size a caller of the data-access layer passes
MaxPage == 3       \* largest page number a caller passes
ScenarioPageSize == 10   \* one larger page size, with a full page of entries
ScenarioCount == 47      \* one larger total

(***************************************************************************)
(* JavaScript values.                                                      *)
(*   An optional value (an argument left out, a JSON member that is        *)
(*   absent) is <<>> when absent and <<v>> when present.                   *)
(*   A number that a division produces is tagged, since x / 0 is           *)
(*   Infinity, -Infinity or NaN.                                           *)
(***************************************************************************)
Absent == <<>>
Some(v) == <<v>>
Default(opt, d) == IF opt = Absent THEN d ELSE opt[1]

Num(n) == [k |-> "num", n |-> n]
NaN == [k |-> "nan", n |-> 0]
PosInf == [k |-> "inf", n |-> 1]
NegInf == [k |-> "inf", n |-> -1]

\* CeilDiv with Math.floor in the place of Math.ceil
CeilDiv_floor(a, b) ==
  IF b = 0
    THEN (IF a > 0 THEN PosInf ELSE IF a < 0 THEN NegInf ELSE NaN)
    ELSE IF b > 0 THEN Num(a \div b) ELSE Num((-a) \div (-b))

\* Math.ceil(a / b) for integers a, b
CeilDiv(a, b) ==
  IF b = 0
    THEN (IF a > 0 THEN PosInf ELSE IF a < 0 THEN NegInf ELSE NaN)
    ELSE IF b > 0 THEN Num(-((-a) \div b)) ELSE Num(-(a \div (-b)))

\* Math.max(1, x)
Max1(x) ==
  IF x.k = "nan" THEN NaN
  ELSE IF x.k = "inf" THEN (IF x.n > 0 THEN PosInf ELSE Num(1))
  ELSE IF x.n > 1 THEN x ELSE Num(1)

(***************************************************************************)
(* Replies of the server to one HTTP request.                              *)
(*   fail   : fetch() rejected (network failure), no response at all       *)
(*   status : the HTTP status of the response                              *)
(*   statusText : the status text of the response, word by word            *)
(*   total  : the Bundle's total member, when it is a number               *)
(*   entry  : the Bundle's entry member, when present                      *)
(***************************************************************************)
Reply(fail, status, total, entry) ==
  [fail |-> fail, status |-> status, statusText |-> <<>>, total |-> total,
   entry |-> entry]
\* the reply r with the words of a status text
WithStatusText(r, words) == [r EXCEPT !.statusText = words]

NetworkFailure == Reply(TRUE, 0, Absent, Absent)
HttpError(status) == Reply(FALSE, status, Absent, Absent)
Bundle(total, entry) == Reply(FALSE, 200, total, entry)
\* the reply to a request that was not sent
NoReply == Reply(FALSE, 0, Absent, Absent)

\* response.ok
ok(r) == r.status >= 200 /\ r.status <= 299

\* k entries, the resources base+1 .. base+k
Entries(base, k) == [i \in 1..k |-> [resource |-> base + i]]

Statuses == {404, 500}
Totals == {Absent} \cup {Some(t) : t \in (-1)..MaxTotal} \cup {Some(ScenarioCount)}
EntryLists ==
  {Absent} \cup {Some(Entries(0, k)) : k \in 0..MaxEntries}
    \cup {Some(Entries(0, ScenarioPageSize))}

CountReplies ==
  {NetworkFailure} \cup {HttpError(s) : s \in Statuses}
    \cup {Bundle(t, Absent) : t \in Totals}
PageReplies ==
  {NetworkFailure} \cup {HttpError(s) : s \in Statuses}
    \cup {Bundle(t, e) : t \in Totals, e \in EntryLists}

(***************************************************************************)
(* What a data-access function hands back: a value, or an error thrown.    *)
(* sent lists the requests of the call in the order they were sent.        *)
(* A function that returns a list returns it in the patients member.       *)
(***************************************************************************)
NoPage == [patients |-> <<>>, total |-> 0, pageSize |-> 0, pageNumber |-> 0,
           totalPages |-> Num(0), searchParams |-> Absent]
ListOf(list) == [NoPage EXCEPT !.patients = list]

Return(v, sent) == [threw |-> FALSE, message |-> <<>>, value |-> v, sent |-> sent]
Throw(msg, sent) == [threw |-> TRUE, message |-> msg, value |-> NoPage, sent |-> sent]

\* The message of an error, word by word.
\* `HTTP error ${response.status}: ${response.statusText}`
HttpMessage(r) == <<"HTTP", "error", ToString(r.status) \o ":">> \o r.statusText
\* `Patient with ID ${id} not found on server ${serverUrl}`
NotFoundMessage ==
  <<"Patient", "with", "ID", "{id}", "not", "found", "on", "server", "{serverUrl}">>
\* the error fetch() rejects with, or the one thrown for a status
ErrorOf(r) == IF r.fail THEN <<"Failed", "to", "fetch">> ELSE HttpMessage(r)

\* data.entry?.map((entry) => entry.resource) || []
Resources(r) ==
  IF r.entry = Absent THEN <<>>
  ELSE [i \in 1..Len(r.entry[1]) |-> r.entry[1][i].resource]

\* typeof data.total === "number" ? data.total : 0
ReportedTotal(r) == Default(r.total, 0)

(***************************************************************************)
(* The search filters: each key of searchParams is absent or a string.     *)
(***************************************************************************)
FilterKeys == {"name", "given", "family", "identifier", "gender", "birthdate",
               "phone", "email", "address"}
NoFilters == [key \in FilterKeys |-> Absent]
\* if (searchParams.key): the member is there and is not the empty string
Truthy(opt) == opt # Absent /\ opt[1] # ""
QueryKeys(params) == {key \in FilterKeys : Truthy(params[key])}

Request(kind, query, sort, count, offset) ==
  [kind |-> kind, query |-> query, sort |-> sort, count |-> count, offset |-> offset]
CountRequest == Request("count", {}, "", 0, 0)
PageRequest(query, sort, count, offset) == Request("page", query, sort, count, offset)
SimpleRequest(kind) == Request(kind, {}, "", 0, 0)

\* fetchPatientCount that does not find the total in the reply
fetchPatientCount_noTotal(r) ==
  IF r.fail \/ ~ok(r) THEN -1 ELSE 0

\* fetchPatientCount: the count, or -1 when the request fails in any way
fetchPatientCount(r) ==
  IF r.fail \/ ~ok(r) THEN -1 ELSE ReportedTotal(r)

\* EstimatedTotal that does not add one for a full page
EstimatedTotal_noExtra(pageNumber, size, k) ==
  (pageNumber - 1) * size + k

\* the fallback estimate of fetchPatients and searchPatients
EstimatedTotal(pageNumber, size, k) ==
  (pageNumber - 1) * size + k + (IF k = size THEN 1 ELSE 0)

\* if (!pageSize): the page size was left out, or is 0
NeedsPageSize(pageSizeArg) == pageSizeArg = Absent \/ pageSizeArg[1] = 0

\* total === 0 && patients.length > 0
\* the test for a wrong total that takes a reported total of 0 at its word
Suspicious_onlyWithoutTotal(r) == r.total = Absent /\ Len(Resources(r)) > 0

\* total === 0 && patients.length > 0
Suspicious(r) == ReportedTotal(r) = 0 /\ Len(Resources(r)) > 0

\* fetchPatients that lets a failure of the reconciliation's count request escape
fetchPatients_countThrows(pageSizeArg, pageNumberArg, sortParam, c1, r, c2) ==
  LET resolve == NeedsPageSize(pageSizeArg)
      size == IF resolve THEN fetchPatientCount(c1) ELSE pageSizeArg[1]
      pageNumber == Default(pageNumberArg, 1)
      offset == (pageNumber - 1) * size
      sent1 == (IF resolve THEN <<CountRequest>> ELSE <<>>)
                 \o <<PageRequest({}, sortParam, size, offset)>>
  IN IF r.fail \/ ~ok(r) THEN Throw(ErrorOf(r), sent1)
     ELSE IF Suspicious(r) /\ (c2.fail \/ ~ok(c2))
       THEN Throw(ErrorOf(c2), sent1 \o <<CountRequest>>)
     ELSE
       LET found == Resources(r)
           reported == ReportedTotal(r)
           accurateTotal == fetchPatientCount(c2)
           total == IF ~Suspicious(r) THEN reported
                    ELSE IF accurateTotal > 0 THEN accurateTotal
                    ELSE EstimatedTotal(pageNumber, size, Len(found))
           pages == Max1(CeilDiv(total, size))
       IN Return([patients |-> found, total |-> total, pageSize |-> size,
                  pageNumber |-> pageNumber, totalPages |-> pages,
                  searchParams |-> Absent],
                 sent1 \o (IF Suspicious(r) THEN <<CountRequest>> ELSE <<>>))

(***************************************************************************)
(* fetchPatients(serverUrl, pageSize, pageNumber = 1, sortParam)           *)
(*   c1 : the reply to the count request that resolves a missing page size *)
(*   r  : the reply to the page request                                    *)
(*   c2 : the reply to the count request of the reconciliation             *)
(***************************************************************************)
fetchPatients(pageSizeArg, pageNumberArg, sortParam, c1, r, c2) ==
  LET resolve == NeedsPageSize(pageSizeArg)
      size == IF resolve THEN fetchPatientCount(c1) ELSE pageSizeArg[1]
      pageNumber == Default(pageNumberArg, 1)
      offset == (pageNumber - 1) * size
      sent1 == (IF resolve THEN <<CountRequest>> ELSE <<>>)
                 \o <<PageRequest({}, sortParam, size, offset)>>
  IN IF r.fail \/ ~ok(r) THEN Throw(ErrorOf(r), sent1)
     ELSE
       LET found == Resources(r)
           reported == ReportedTotal(r)
           accurateTotal == fetchPatientCount(c2)
           total == IF ~Suspicious(r) THEN reported
                    ELSE IF accurateTotal > 0 THEN accurateTotal
                    ELSE EstimatedTotal(pageNumber, size, Len(found))
           pages == Max1(CeilDiv(total, size))
       IN Return([patients |-> found, total |-> total, pageSize |-> size,
                  pageNumber |-> pageNumber, totalPages |-> pages,
                  searchParams |-> Absent],
                 sent1 \o (IF Suspicious(r) THEN <<CountRequest>> ELSE <<>>))

(***************************************************************************)
(* searchPatients(searchParams, serverUrl, pageSize = 100, pageNumber = 1, *)
(*                sortParam)                                               *)
(***************************************************************************)
DefaultSearchPageSize == 100

searchPatients(params, pageSizeArg, pageNumberArg, sortParam, r) ==
  LET size == Default(pageSizeArg, DefaultSearchPageSize)
      pageNumber == Default(pageNumberArg, 1)
      offset == (pageNumber - 1) * size
      sent == <<PageRequest(QueryKeys(params), sortParam, size, offset)>>
  IN IF r.fail \/ ~ok(r) THEN Throw(ErrorOf(r), sent)
     ELSE
       LET found == Resources(r)
           total == IF ~Suspicious(r) THEN ReportedTotal(r)
                    ELSE EstimatedTotal(pageNumber, size, Len(found))
           pages == Max1(CeilDiv(total, size))
       IN Return([patients |-> found, total |-> total, pageSize |-> size,
                  pageNumber |-> pageNumber, totalPages |-> pages,
                  searchParams |-> Some(params)],
                 sent)

(***************************************************************************)
(* The functions of one request.  The payload of a reply that is not a     *)
(* Bundle (the created patient, the patient read by id) is carried in its  *)
(* entry member.                                                           *)
(***************************************************************************)
createPatient(r) ==
  IF r.fail \/ ~ok(r) THEN Throw(ErrorOf(r), <<SimpleRequest("POST Patient")>>)
  ELSE Return(ListOf(Resources(r)), <<SimpleRequest("POST Patient")>>)

fetchPatientById(r) ==
  IF r.fail THEN Throw(ErrorOf(r), <<SimpleRequest("GET Patient/id")>>)
  ELSE IF ~ok(r)
    THEN (IF r.status = 404
            THEN Throw(NotFoundMessage, <<SimpleRequest("GET Patient/id")>>)
            ELSE Throw(HttpMessage(r), <<SimpleRequest("GET Patient/id")>>))
  ELSE Return(ListOf(Resources(r)), <<SimpleRequest("GET Patient/id")>>)

\* fetchLatestEncounters without the 404 branch and with a catch clause that rethrows
fetchLatestEncounters_throws(r) ==
  IF r.fail \/ ~ok(r) THEN Throw(ErrorOf(r), <<SimpleRequest("GET Encounter")>>)
  ELSE Return(ListOf(Resources(r)), <<SimpleRequest("GET Encounter")>>)

\* the catch clause returns [] for everything thrown in the try block
fetchLatestEncounters(r) ==
  IF r.fail THEN Return(ListOf(<<>>), <<SimpleRequest("GET Encounter")>>)
  ELSE IF ~ok(r)
    THEN (IF r.status = 404
            THEN Return(ListOf(<<>>), <<SimpleRequest("GET Encounter")>>)
            ELSE Return(ListOf(<<>>), <<SimpleRequest("GET Encounter")>>))
  ELSE Return(ListOf(Resources(r)), <<SimpleRequest("GET Encounter")>>)

fetchConditionsForEncounter(r) ==
  IF r.fail \/ ~ok(r) THEN Throw(ErrorOf(r), <<SimpleRequest("GET Condition?encounter")>>)
  ELSE Return(ListOf(Resources(r)), <<SimpleRequest("GET Condition?encounter")>>)

\* the catch clause returns [] for everything thrown in the try block
fetchConditionsForPatient(r) ==
  IF r.fail THEN Return(ListOf(<<>>), <<SimpleRequest("GET Condition?patient")>>)
  ELSE IF ~ok(r)
    THEN (IF r.status = 404
            THEN Return(ListOf(<<>>), <<SimpleRequest("GET Condition?patient")>>)
            ELSE Return(ListOf(<<>>), <<SimpleRequest("GET Condition?patient")>>))
  ELSE Return(ListOf(Resources(r)), <<SimpleRequest("GET Condition?patient")>>)

fetchOrganizations(r) ==
  IF r.fail \/ ~ok(r) THEN Throw(ErrorOf(r), <<SimpleRequest("GET Organization")>>)
  ELSE Return(ListOf(Resources(r)), <<SimpleRequest("GET Organization")>>)

(***************************************************************************)
(* fetchAllConditions(serverUrl, limit?)                                   *)
(*   c : the reply to the count request that resolves a missing limit      *)
(*   r : the reply to the request of the conditions                        *)
(***************************************************************************)
ConditionCountRequest == Request("GET Condition?_summary=count", {}, "", 0, 0)
ConditionsRequest(limit) == Request("GET Condition?_count", {}, "", limit, 0)

\* limit === undefined
NeedsLimit(limitArg) == limitArg = Absent

fetchAllConditions(limitArg, c, r) ==
  IF NeedsLimit(limitArg) /\ (c.fail \/ ~ok(c))
    THEN Throw(ErrorOf(c), <<ConditionCountRequest>>)
    ELSE
      LET limit == IF NeedsLimit(limitArg) THEN ReportedTotal(c) ELSE limitArg[1]
          sent == (IF NeedsLimit(limitArg) THEN <<ConditionCountRequest>> ELSE <<>>)
                    \o <<ConditionsRequest(limit)>>
      IN IF r.fail \/ ~ok(r) THEN Throw(ErrorOf(r), sent)
         ELSE Return(ListOf(Resources(r)), sent)

(***************************************************************************)
(* PatientList (src/components/patient-list.tsx).                          *)
(*                                                                         *)
(* A handler is an operator from the component state it was rendered with  *)
(* to the state after it has run; an action applies a handler, runs the    *)
(* effects whose dependencies changed, and commits.  A call of             *)
(* fetchPatients or searchPatients stays in inflight until the server has  *)
(* answered its requests; then the rest of loadPatients / loadSearchPage   *)
(* runs with the page and size the call was made with.                     *)
(***************************************************************************)
FHIRLAB == "https://cdr.fhirlab.net/fhir"
UPMSILAB == "https://cdr.upmsilab.org/fhir"
FHIR_SERVERS == {FHIRLAB, UPMSILAB}

(***************************************************************************)
(* ServerProvider (contexts/server-context, src/unnamed/part_002).         *)
(***************************************************************************)
\* useState(FHIR_SERVERS.FHIRLAB)
DefaultServer == FHIRLAB
\* an address that is not one of the configured endpoints
OtherUrl == "https://example.org/fhir"
\* what the storage may hold when the application starts
StoredValues == {Absent} \cup {Some(url) : url \in FHIR_SERVERS \cup {OtherUrl}}

\* useEffect(..., [serverUrl]): localStorage.setItem
storeEffect(url) == Some(url)
\* useEffect(..., []): the server after localStorage.getItem and setServerUrl
loadEffect(url, stored) ==
  IF stored # Absent /\ stored[1] # "" /\ stored[1] \in FHIR_SERVERS
    THEN stored[1] ELSE url

\* the first render with the storage holding stored, its effects in the
\* order of their declaration, and the effects of the render that follows
ServerProviderMounted(stored) ==
  LET stored1 == storeEffect(DefaultServer)
      url1 == loadEffect(DefaultServer, stored1)
      stored2 == IF url1 # DefaultServer THEN storeEffect(url1) ELSE stored1
  IN [serverUrl |-> url1, localStorage |-> stored2]

\* ServerSelector.handleServerChange and the storing effect of ServerProvider
handleServerChange(url) ==
  /\ serverUrl' = url
  /\ localStorage' = storeEffect(url)

SortFields == {"name", "gender", "birthDate", "lastUpdated", "id"}
fieldMap == [name |-> "family", gender |-> "gender", birthDate |-> "birthdate",
             lastUpdated |-> "_lastUpdated", id |-> "_id"]
\* getSortParam with the prefix on the ascending direction
getSortParam_inverted(field, direction) ==
  (IF direction = "asc" THEN "-" ELSE "") \o fieldMap[field]

getSortParam(field, direction) ==
  (IF direction = "desc" THEN "-" ELSE "") \o fieldMap[field]
Toggle(direction) == IF direction = "asc" THEN "desc" ELSE "asc"

PageSizeOptions == {10, 25, 50, 100}
InitialPageSize == 25

MaxClicks == 3     \* most user actions on the view in one run
MaxPropsChanges == 1  \* most times the parent passes other props in one run
ViewTotal == 30    \* the totals the server reports to the view: 0 and this one
FewEntries == 2    \* the entry lists the server sends to the view: none, this many, a full page
\* the columns and the page sizes the user picks
SortChoices == {"name", "lastUpdated"}
PageSizeChoices == {10, 25}

\* n || d and x || d
OrElse(n, d) == IF n = 0 THEN d ELSE n
OrElseNum(x, d) == IF x.k = "nan" \/ (x.k = "num" /\ x.n = 0) THEN Num(d) ELSE x
\* n > x and n < x for an integer n and a number x
Above(n, x) == (x.k = "num" /\ n > x.n) \/ (x.k = "inf" /\ x.n < 0)
Below(n, x) == (x.k = "num" /\ n < x.n) \/ (x.k = "inf" /\ x.n > 0)

State ==
  [patients |-> patients, loading |-> loading, error |-> error,
   pageSize |-> pageSize, currentPage |-> currentPage, totalPages |-> totalPages,
   totalPatients |-> totalPatients, searchParams |-> searchParams,
   countVerified |-> countVerified, sortField |-> sortField,
   sortDirection |-> sortDirection, searchTerm |-> searchTerm,
   loadingCount |-> loadingCount, inflight |-> inflight]

Commit(st) ==
  /\ patients' = st.patients /\ loading' = st.loading /\ error' = st.error
  /\ pageSize' = st.pageSize /\ currentPage' = st.currentPage
  /\ totalPages' = st.totalPages /\ totalPatients' = st.totalPatients
  /\ searchParams' = st.searchParams /\ countVerified' = st.countVerified
  /\ sortField' = st.sortField /\ sortDirection' = st.sortDirection
  /\ inflight' = st.inflight /\ searchTerm' = st.searchTerm
  /\ loadingCount' = st.loadingCount

\* the component is in state st
IsState(st) ==
  /\ patients = st.patients /\ loading = st.loading /\ error = st.error
  /\ pageSize = st.pageSize /\ currentPage = st.currentPage
  /\ totalPages = st.totalPages /\ totalPatients = st.totalPatients
  /\ searchParams = st.searchParams /\ countVerified = st.countVerified
  /\ sortField = st.sortField /\ sortDirection = st.sortDirection
  /\ inflight = st.inflight /\ searchTerm = st.searchTerm
  /\ loadingCount = st.loadingCount

\* the useState initial values
InitialState ==
  [patients |-> <<>>, loading |-> (initialPatients = Absent), error |-> Absent,
   pageSize |-> InitialPageSize, currentPage |-> 1, totalPages |-> Num(1),
   totalPatients |-> 0, searchParams |-> Absent, countVerified |-> FALSE,
   sortField |-> "lastUpdated", sortDirection |-> "desc", searchTerm |-> <<>>,
   loadingCount |-> FALSE, inflight |-> <<>>]

Pending(fn, url, params, page, size, sortParam) ==
  [fn |-> fn, serverUrl |-> url, searchParams |-> params, page |-> page,
   size |-> size, sortParam |-> sortParam, rows |-> 0, field |-> "", direction |-> "",
   r |-> NoReply]

\* the pending call of a load: the arguments field and direction of the load
\* are kept with the sort parameter made of them
PendingLoad(fn, url, params, page, size, field, direction) ==
  [Pending(fn, url, params, page, size, getSortParam(field, direction))
     EXCEPT !.field = field, !.direction = direction]

\* loadPatients up to the await
loadPatients(st, url, page, size, field, direction) ==
  IF initialPatients # Absent
    THEN [st EXCEPT !.patients = initialPatients[1]]
    ELSE [st EXCEPT !.loading = TRUE, !.error = Absent, !.countVerified = FALSE,
                    !.inflight = Append(@, PendingLoad("fetchPatients", url, NoFilters, page,
                                                   size, field, direction))]

\* loadSearchPage up to the await
loadSearchPage(st, url, page, size, field, direction) ==
  IF st.searchParams = Absent
    THEN st
    ELSE [st EXCEPT !.loading = TRUE, !.error = Absent, !.countVerified = FALSE,
                    !.inflight = Append(@, PendingLoad("searchPatients", url, st.searchParams[1],
                                                   page, size, field, direction))]

\* loadPatients and loadSearchPage after the await: res is what the call handed back
loaded(st, q, res) ==
  IF res.threw
    THEN [st EXCEPT !.error = Some(res.message), !.loading = FALSE]
    ELSE [st EXCEPT !.patients = res.value.patients,
                    !.totalPatients = res.value.total,
                    !.totalPages = res.value.totalPages,
                    !.currentPage = q.page,
                    !.pageSize = q.size,
                    !.countVerified =
                       IF Len(res.value.patients) > 0 /\ res.value.total = 0
                         THEN @ ELSE TRUE,
                    !.loading = FALSE]

\* useEffect(..., [paginationData])
paginationDataEffect(st) ==
  IF paginationData = Absent THEN st
  ELSE [st EXCEPT !.totalPatients = OrElse(paginationData[1].total, 0),
                  !.totalPages = OrElseNum(paginationData[1].totalPages, 1),
                  !.pageSize = OrElse(paginationData[1].pageSize, InitialPageSize),
                  !.currentPage = OrElse(paginationData[1].pageNumber, 1),
                  !.searchParams = IF paginationData[1].searchParams # Absent
                                     THEN paginationData[1].searchParams ELSE @]

\* useEffect(..., [initialPatients, serverUrl]), run with the state rendered
serverEffect(st, rendered, url) ==
  IF initialPatients = Absent
    THEN loadPatients(st, url, 1, rendered.pageSize, rendered.sortField,
                      rendered.sortDirection)
    ELSE st

\* useEffect(..., [initialPatients, paginationData, pageSize]), run with the state rendered
initialPatientsEffect(st, rendered) ==
  IF initialPatients = Absent THEN st
  ELSE IF paginationData # Absent
    THEN [st EXCEPT !.patients = initialPatients[1],
                    !.totalPatients = OrElse(paginationData[1].total, 0),
                    !.totalPages = OrElseNum(paginationData[1].totalPages, 1)]
    ELSE [st EXCEPT !.patients = initialPatients[1],
                    !.totalPatients = Len(initialPatients[1]),
                    !.totalPages = CeilDiv(Len(initialPatients[1]), rendered.pageSize)]

\* the effects that a change of pageSize runs again
\* verifyTotalCount up to the await, run from the render rendered: the call
\* keeps the page, the page size and the number of rows of that render
verifyTotalCount(st, rendered) ==
  IF rendered.countVerified \/ rendered.totalPatients > 0 THEN st
  ELSE [st EXCEPT !.loadingCount = TRUE,
                  !.inflight =
          Append(@, [Pending("fetchPatientCount", serverUrl, NoFilters,
                             rendered.currentPage, rendered.pageSize, "")
                       EXCEPT !.rows = Len(rendered.patients)])]

\* verifyTotalCount after the await: count is what fetchPatientCount handed back
verified(st, q, count) ==
  IF count > 0
    THEN [st EXCEPT !.totalPatients = count,
                    !.totalPages = Max1(CeilDiv(count, q.size)),
                    !.countVerified = TRUE, !.loadingCount = FALSE]
  ELSE IF count = 0 /\ q.rows > 0
    THEN LET paged == (q.page - 1) * q.size + q.rows
             estimatedTotal == IF q.rows > paged THEN q.rows ELSE paged
         IN [st EXCEPT !.totalPatients = estimatedTotal,
                       !.totalPages = Max1(CeilDiv(estimatedTotal, q.size)),
                       !.countVerified = TRUE, !.loadingCount = FALSE]
  ELSE [st EXCEPT !.loadingCount = FALSE]

\* the dependencies of the effect that verifies the count
VerifyDeps(st) == <<st.loading, st.countVerified, st.patients, st.totalPatients>>

\* the effect verifying the count whenever the view is idle and not verified
verifyEffect_onError(st, before, rendered) ==
  IF VerifyDeps(rendered) # VerifyDeps(before)
       /\ ~rendered.loading /\ ~rendered.countVerified
    THEN verifyTotalCount(st, rendered)
    ELSE st

\* useEffect(..., [loading, countVerified, patients, totalPatients]) after the
\* render rendered that follows the render before; st gathers the updates
verifyEffect(st, before, rendered) ==
  IF VerifyDeps(rendered) # VerifyDeps(before)
       /\ ~rendered.loading /\ ~rendered.countVerified
       /\ Len(rendered.patients) > 0 /\ rendered.totalPatients = 0
    THEN verifyTotalCount(st, rendered)
    ELSE st

\* the effects after the render st that follows the render before, and after
\* the render of what they set
Rerendered(before, st) ==
  LET s1 == IF st.pageSize # before.pageSize THEN initialPatientsEffect(st, st) ELSE st
      s2 == verifyEffect(s1, before, st)
  IN verifyEffect(s2, st, s2)

\* the first render and its effects
Mounted ==
  LET s1 == paginationDataEffect(InitialState)
      s2 == serverEffect(s1, InitialState, serverUrl)
      s3 == initialPatientsEffect(s2, InitialState)
  IN Rerendered(InitialState, s3)

\* handleSort that keeps the direction when the field changes
handleSort_keepsDirection(st, field) ==
  LET st1 == IF st.sortField = field
               THEN [st EXCEPT !.sortDirection = Toggle(st.sortDirection)]
               ELSE [st EXCEPT !.sortField = field]
  IN IF initialPatients = Absent
       THEN loadPatients(st1, serverUrl, 1, st.pageSize, field, Toggle(st.sortDirection))
       ELSE st1

handleSort(st, field) ==
  LET st1 == IF st.sortField = field
               THEN [st EXCEPT !.sortDirection = Toggle(st.sortDirection)]
               ELSE [st EXCEPT !.sortField = field, !.sortDirection = "asc"]
  IN IF initialPatients = Absent
       THEN loadPatients(st1, serverUrl, 1, st.pageSize, field, Toggle(st.sortDirection))
       ELSE st1

\* handlePageSizeChange that stays on the page number it is on
handlePageSizeChange_keepsPage(st, size) ==
  LET newPage == st.currentPage
      st1 == [st EXCEPT !.pageSize = size]
  IN IF paginationData # Absent /\ st.searchParams # Absent
       THEN loadSearchPage(st1, serverUrl, newPage, size, st.sortField, st.sortDirection)
       ELSE loadPatients(st1, serverUrl, newPage, size, st.sortField, st.sortDirection)

handlePageSizeChange(st, size) ==
  LET firstRecordIndex == (st.currentPage - 1) * st.pageSize + 1
      newPage == Max1(CeilDiv(firstRecordIndex, size)).n
      st1 == [st EXCEPT !.pageSize = size]
  IN IF paginationData # Absent /\ st.searchParams # Absent
       THEN loadSearchPage(st1, serverUrl, newPage, size, st.sortField, st.sortDirection)
       ELSE loadPatients(st1, serverUrl, newPage, size, st.sortField, st.sortDirection)

goToPage(st, page) ==
  IF page < 1 \/ Above(page, st.totalPages) \/ page = st.currentPage THEN st
  ELSE IF paginationData # Absent /\ st.searchParams # Absent
    THEN loadSearchPage(st, serverUrl, page, st.pageSize, st.sortField, st.sortDirection)
    ELSE loadPatients(st, serverUrl, page, st.pageSize, st.sortField, st.sortDirection)

\* the Retry button
retry(st) ==
  IF paginationData # Absent /\ st.searchParams # Absent
    THEN loadSearchPage(st, serverUrl, st.currentPage, st.pageSize, st.sortField,
                        st.sortDirection)
    ELSE loadPatients(st, serverUrl, st.currentPage, st.pageSize, st.sortField,
                      st.sortDirection)

\* the refresh button
refresh(st) ==
  loadPatients(st, serverUrl, st.currentPage, st.pageSize, st.sortField, st.sortDirection)

(***************************************************************************)
(* The local text filter.  A patient of the model is the number of its     *)
(* resource; PatientName gives the first name entry of the resource, and   *)
(* texts are sequences of characters.                                      *)
(***************************************************************************)
\* String.prototype.includes, on the characters of a text or the words of a
\* message
Includes(words, part) ==
  \E i \in 0..(Len(words) - Len(part)) :
    \A j \in 1..Len(part) : words[i + j] = part[j]

\* String.prototype.toLowerCase on the letters the names and terms are made of
Lowered == ("A" :> "a") @@ ("B" :> "b") @@ ("E" :> "e") @@ ("L" :> "l") @@ ("N" :> "n")
RECURSIVE toLowerCase(_)
toLowerCase(text) ==
  IF text = <<>> THEN <<>>
  ELSE <<IF Head(text) \in DOMAIN Lowered THEN Lowered[Head(text)] ELSE Head(text)>>
         \o toLowerCase(Tail(text))

\* Array.prototype.join(" ")
RECURSIVE Join(_)
Join(texts) ==
  IF texts = <<>> THEN <<>>
  ELSE IF Len(texts) = 1 THEN texts[1]
  ELSE texts[1] \o <<" ">> \o Join(Tail(texts))

\* patient.name?.[0] of the resources the server holds: Ann Lee, Bo Al
\* without a family name, Ng without given names, and a resource without names
PatientName(resource) ==
  CASE resource % 4 = 1 -> Some([family |-> Some(<<"L", "e", "e">>),
                                 given |-> <<<<"A", "n", "n">>>>])
    [] resource % 4 = 2 -> Some([family |-> Absent,
                                 given |-> <<<<"B", "o">>, <<"A", "l">>>>])
    [] resource % 4 = 3 -> Some([family |-> Some(<<"N", "g">>), given |-> <<>>])
    [] OTHER -> Absent

formatPatientName(patient) ==
  IF PatientName(patient) = Absent THEN <<"U", "n", "k", "n", "o", "w", "n">>
  ELSE LET name == PatientName(patient)[1]
           firstName == IF Len(name.given) > 0 THEN name.given[1] ELSE <<>>
           middleName == IF Len(name.given) > 1 THEN name.given[2] ELSE <<>>
           family == IF name.family = Absent THEN <<>> ELSE name.family[1]
       IN Join(SelectSeq(<<firstName, middleName, family>>, LAMBDA t : t # <<>>))

\* the callback of patients.filter with a case-sensitive comparison
Kept_caseSensitive(patient, term) ==
  IF term = <<>> THEN TRUE
  ELSE IF PatientName(patient) = Absent THEN FALSE
  ELSE LET name == PatientName(patient)[1]
           familyName == IF name.family = Absent THEN <<>> ELSE name.family[1]
       IN IF Includes(familyName, term) THEN TRUE
          ELSE IF Len(name.given) > 0
                    /\ (\/ \E i \in 1..Len(name.given) : Includes(name.given[i], term)
                        \/ Includes(Join(name.given), term))
            THEN TRUE
          ELSE Includes(formatPatientName(patient), term)

\* the callback of patients.filter in filteredPatients
Kept(patient, term) ==
  IF term = <<>> THEN TRUE
  ELSE IF PatientName(patient) = Absent THEN FALSE
  ELSE LET searchTermLower == toLowerCase(term)
           name == PatientName(patient)[1]
           familyName == IF name.family = Absent THEN <<>>
                         ELSE toLowerCase(name.family[1])
       IN IF Includes(familyName, searchTermLower) THEN TRUE
          ELSE IF Len(name.given) > 0
                    /\ (\/ \E i \in 1..Len(name.given) :
                             Includes(toLowerCase(name.given[i]), searchTermLower)
                        \/ Includes(toLowerCase(Join(name.given)), searchTermLower))
            THEN TRUE
          ELSE Includes(toLowerCase(formatPatientName(patient)), searchTermLower)

\* what the user types into the filter: nothing, a part of a family name in
\* capitals, a part of two given names, a part of a given and a family name
SearchTerms == {<<>>, <<"L", "E">>, <<"o", " ", "a">>, <<"n", " ", "l">>}

\* Kept, worked out once for each of the four names and each term
KeptByName == [n \in 0..3 |-> [term \in SearchTerms |-> Kept(n, term)]]

filteredPatients(st) ==
  SelectSeq(st.patients, LAMBDA p : KeptByName[p % 4][st.searchTerm])

\* what is on the screen
TableShown ==
  /\ error = Absent /\ ~loading
  /\ ~(Len(patients) > 0 /\ totalPatients = 0 /\ ~countVerified)
  /\ Len(filteredPatients(State)) > 0
\* the rows of the table
RowsShown == IF TableShown THEN filteredPatients(State) ELSE <<>>
FooterShown == ~loading /\ Below(1, totalPages)
RetryShown == error # Absent
RefreshEnabled == initialPatients = Absent /\ ~(loading \/ loadingCount)

Props == <<initialPatients, paginationData>>
\* the user acts once more, on the list or on the search form above it
CanAct == clicks + tags.passed < MaxClicks
Acted ==
  /\ clicks' = clicks + 1
  /\ tags' = IF Len(inflight') > Len(inflight)
              THEN [tags EXCEPT !.issued = @ + 1,
                                !.pending = Append(@, tags.issued + 1)]
              ELSE tags

\* the user clicks the header of a column
ClickSortOn(field) ==
  /\ TableShown /\ CanAct
  /\ \E next \in {handleSort(State, field)} : Commit(next)
  /\ Acted
  /\ UNCHANGED <<serverUrl, Props, lastGood, svcVars, appVars>>

ClickSort == \E field \in SortChoices : ClickSortOn(field)

ChangePageSize ==
  \E size \in PageSizeChoices \ {pageSize} :
    /\ CanAct
    /\ \E next \in {Rerendered(State, handlePageSizeChange(State, size))} : Commit(next)
    /\ Acted
  /\ UNCHANGED <<serverUrl, Props, lastGood, svcVars, appVars>>

\* a page button of the footer, or the jump-to-page box
ClickPage ==
  \E page \in 1..(IF totalPages.k = "num" THEN totalPages.n ELSE 1) :
    /\ FooterShown /\ CanAct
    /\ page # currentPage
    /\ \E next \in {goToPage(State, page)} : Commit(next)
    /\ Acted
  /\ UNCHANGED <<serverUrl, Props, lastGood, svcVars, appVars>>

ClickRetry ==
  /\ RetryShown /\ CanAct
  /\ \E next \in {retry(State)} : Commit(next)
  /\ Acted
  /\ UNCHANGED <<serverUrl, Props, lastGood, svcVars, appVars>>

\* the prop hideSearch: Home passes hideSearch={true} to the list it mounts
\* with the result of a search, and nothing to the list of the tab "view"
hideSearch == initialPatients # Absent

\* the user changes the text of the filter input, which is rendered unless
\* hideSearch is set
TypeFilter ==
  \E term \in SearchTerms \ {searchTerm} :
    /\ ~hideSearch
    /\ \E next \in {[State EXCEPT !.searchTerm = term]} : Commit(next)
    /\ UNCHANGED <<serverUrl, Props, lastGood, clicks, tags, svcVars, appVars>>

ClickRefresh ==
  /\ RefreshEnabled /\ CanAct
  /\ \E next \in {refresh(State)} : Commit(next)
  /\ Acted
  /\ UNCHANGED <<serverUrl, Props, lastGood, svcVars, appVars>>

\* ServerSelector.handleServerChange, and the effect of PatientList on serverUrl
ChangeServer ==
  \E url \in FHIR_SERVERS \ {serverUrl} :
    /\ CanAct
    /\ handleServerChange(url)
    /\ \E next \in {serverEffect(State, State, url)} : Commit(next)
    /\ Acted
    /\ UNCHANGED <<Props, lastGood, svcVars, screenVars, restVars>>

\* the replies of the server to the requests of a pending call: an error
\* status, a full page with a total, an empty page with total 0, and a few
\* entries with total 0
ViewPageReplies(q) ==
  {HttpError(500),
   Bundle(Some(ViewTotal), Some(Entries((q.page - 1) * q.size, q.size))),
   Bundle(Some(0), Some(<<>>)),
   Bundle(Some(0), Some(Entries((q.page - 1) * q.size, FewEntries)))}
ViewCountReplies == {NetworkFailure, Bundle(Some(ViewTotal), Absent)}

Result(q, r, c2) ==
  IF q.fn = "fetchPatients"
    THEN fetchPatients(Some(q.size), Some(q.page), q.sortParam, NoReply, r, c2)
    ELSE searchPatients(q.searchParams, Some(q.size), Some(q.page), q.sortParam, r)

Without(seq, i) == [j \in 1..(Len(seq) - 1) |-> IF j < i THEN seq[j] ELSE seq[j + 1]]

\* history: call i is gone, and a call an effect made on the way is numbered
Settled_tags(i) ==
  tags' = IF Len(inflight') > Len(inflight) - 1
            THEN [tags EXCEPT !.issued = @ + 1,
                              !.pending = Append(Without(@, i), tags.issued + 1)]
            ELSE [tags EXCEPT !.pending = Without(@, i)]

\* the pending call i settles and the rest of loadPatients / loadSearchPage runs
Settle(i, r, c2) ==
  \E res \in {Result(inflight[i], r, c2)} :
    \E next \in {Rerendered(State, loaded([State EXCEPT !.inflight = Without(inflight, i)],
                                          inflight[i], res))} :
      /\ Commit(next)
      /\ lastGood' = IF res.threw THEN lastGood
                     ELSE [size |-> inflight[i].size, sortParam |-> inflight[i].sortParam]
      /\ Settled_tags(i)
      /\ UNCHANGED <<serverUrl, Props, clicks, svcVars, appVars>>

\* the pending call i of verifyTotalCount settles and the rest of it runs
SettleCount(i, c) ==
  \E next \in {Rerendered(State, verified([State EXCEPT !.inflight = Without(inflight, i)],
                                            inflight[i], fetchPatientCount(c)))} :
    /\ Commit(next)
    /\ Settled_tags(i)
    /\ UNCHANGED <<serverUrl, Props, lastGood, clicks, svcVars, appVars>>

\* fetchPatients asks for the count after the page reply r
Recounts(q, r) == q.fn = "fetchPatients" /\ ~r.fail /\ ok(r) /\ Suspicious(r)

\* the page request of the pending fetchPatients call i is answered with
\* resources and total 0: the call keeps the page, asks for the count and
\* goes on waiting
AskRecount ==
  \E i \in 1..Len(inflight) :
    \E r \in ViewPageReplies(inflight[i]) :
      /\ inflight[i].fn # "fetchPatientCount" /\ inflight[i].r = NoReply
      /\ Recounts(inflight[i], r)
      /\ \E next \in {[State EXCEPT !.inflight[i].r = r]} : Commit(next)
      /\ UNCHANGED <<serverUrl, Props, lastGood, clicks, tags, svcVars, appVars>>

\* the last reply a pending call waits for arrives
SettleLoad ==
  \E i \in 1..Len(inflight) :
    IF inflight[i].fn = "fetchPatientCount"
      THEN \E c \in ViewCountReplies : SettleCount(i, c)
    ELSE IF inflight[i].r # NoReply
      THEN \E c2 \in ViewCountReplies : Settle(i, inflight[i].r, c2)
      ELSE \E r \in ViewPageReplies(inflight[i]) :
             /\ ~Recounts(inflight[i], r)
             /\ Settle(i, r, NoReply)

\* the props PatientList is mounted with
SearchResult ==
  searchPatients([NoFilters EXCEPT !["identifier"] = Some("x")], Absent, Absent,
                 "-_lastUpdated",
                 Bundle(Some(ViewTotal), Some(Entries(0, FewEntries)))).value
\* the result of another search, asked for in pages of ScenarioPageSize
OtherSearchResult ==
  searchPatients([NoFilters EXCEPT !["name"] = Some("a")], Some(ScenarioPageSize), Absent,
                 "-_lastUpdated",
                 Bundle(Some(ScenarioCount), Some(Entries(0, ScenarioPageSize)))).value
PropsChoices ==
  {<<Absent, Absent>>,
   <<Some(SearchResult.patients), Absent>>,
   <<Some(SearchResult.patients), Some(SearchResult)>>,
   <<Some(OtherSearchResult.patients), Some(OtherSearchResult)>>}

\* the effects that depend on the props, after the render st that follows a
\* render with the props old; a result the parent passes is a new object
propsEffects(st, old) ==
  LET s1 == IF paginationData = Absent /\ old[2] = Absent
              THEN st ELSE paginationDataEffect(st)
      s2 == IF initialPatients = Absent /\ old[1] = Absent
              THEN s1 ELSE serverEffect(s1, st, serverUrl)
  IN initialPatientsEffect(s2, st)

\* the results Home passes to the list under the tab "search"
SearchProps == {<<Some(result.patients), Some(result)>> :
                  result \in {SearchResult, OtherSearchResult}}

\* Home renders the list it has mounted for the result of a search with the
\* result of the next search (Home.handleSearchResults); the list of the tab
\* "view" has no props, and a list is never left mounted without its result
PropsChanged ==
  \E props \in SearchProps :
    /\ CanAct /\ tags.passed < MaxPropsChanges
    /\ Props \in SearchProps
    /\ initialPatients' = props[1] /\ paginationData' = props[2]
    /\ UNCHANGED <<serverUrl, lastGood, clicks, svcVars, appVars>>
    /\ \E rendered \in {State}, old \in {Props} :
         \E next \in {Rerendered(rendered, propsEffects(rendered, old))'} : Commit(next)
    /\ tags' = IF Len(inflight') > Len(inflight)
                THEN [tags EXCEPT !.issued = @ + 1, !.pending = Append(@, tags.issued + 1),
                                  !.passed = @ + 1]
                ELSE [tags EXCEPT !.passed = @ + 1]

(***************************************************************************)
(* EncounterList (src/components/encounter-list.tsx): the rows of the      *)
(* encounters prop; a row is expanded or collapsed by toggleEncounter.     *)
(***************************************************************************)
MaxRows == 2         \* encounter rows of the list
MaxExpansions == 2   \* most expansions of one row of a mounted list
MaxListMounts == 2   \* most mounts of the list
EncounterIds == 1..MaxRows

\* the useState initial values: conditions and loading are {}, and a key
\* that is not there reads as undefined
EncounterListInitial ==
  [expandedEncounter |-> Absent,
   conditions |-> [id \in EncounterIds |-> Absent],
   loading |-> [id \in EncounterIds |-> FALSE]]

\* toggleEncounter that takes an empty list of conditions for none fetched
toggleEncounter_refetchEmpty(st, encounterId) ==
  IF st.expandedEncounter = Some(encounterId)
    THEN [st EXCEPT !.expandedEncounter = Absent]
  ELSE IF (st.conditions[encounterId] \in {Absent, Some(<<>>)})
            /\ ~st.loading[encounterId]
    THEN [st EXCEPT !.expandedEncounter = Some(encounterId),
                    !.loading[encounterId] = TRUE]
  ELSE [st EXCEPT !.expandedEncounter = Some(encounterId)]

\* toggleEncounter up to the await: an array, also the empty one, is truthy
toggleEncounter(st, encounterId) ==
  IF st.expandedEncounter = Some(encounterId)
    THEN [st EXCEPT !.expandedEncounter = Absent]
  ELSE IF st.conditions[encounterId] = Absent /\ ~st.loading[encounterId]
    THEN [st EXCEPT !.expandedEncounter = Some(encounterId),
                    !.loading[encounterId] = TRUE]
  ELSE [st EXCEPT !.expandedEncounter = Some(encounterId)]

\* toggleEncounter after the await with one loading flag for the whole list
conditionsLoaded_oneFlag(st, encounterId, res) ==
  [st EXCEPT !.conditions[encounterId] =
               IF res.threw THEN Some(<<>>) ELSE Some(res.value.patients),
             !.loading = [id \in EncounterIds |-> FALSE]]

\* toggleEncounter after the await: res is what fetchConditionsForEncounter
\* handed back
conditionsLoaded(st, encounterId, res) ==
  [st EXCEPT !.conditions[encounterId] =
               IF res.threw THEN Some(<<>>) ELSE Some(res.value.patients),
             !.loading[encounterId] = FALSE]

\* no EncounterList is mounted and none was.  calls and expansions count for
\* the list that is mounted, shown tells whether one is, mounts counts them
NoConditionFetches ==
  [pending |-> {}, calls |-> [id \in EncounterIds |-> 0],
   expansions |-> [id \in EncounterIds |-> 0], bases |-> {},
   shown |-> FALSE, mounts |-> 0]

\* PatientDetail renders the patient card with an EncounterList in it
encountersShown(fetches) == [fetches EXCEPT !.shown = TRUE, !.mounts = @ + 1]

\* PatientDetail renders another card, or is not rendered: the EncounterList
\* is unmounted, its calls stay on their way and their replies set the state of
\* no mounted list
encountersHidden(fetches) ==
  [NoConditionFetches EXCEPT !.bases = fetches.bases, !.mounts = fetches.mounts]

\* the arguments of the call of fetchConditionsForEncounter in toggleEncounter:
\* the id of the row, and nothing for the parameter serverUrl
conditionsCall(encounterId) == [encounterId |-> encounterId, serverUrl |-> Absent]

\* `${serverUrl}` in the address of a request: a parameter that was not passed
\* is undefined
BaseUrl(arg) == IF arg = Absent THEN "undefined" ELSE arg[1]

\* the replies to GET Condition?encounter=: a failure, an error status, a
\* Bundle without entries, a Bundle with one condition
ConditionReplies ==
  {NetworkFailure, HttpError(500), Bundle(Absent, Absent),
   Bundle(Absent, Some(Entries(0, 1)))}

\* the user clicks the trigger of a row
ToggleEncounter(encounterId) ==
  \E next \in {toggleEncounter(encounterList, encounterId)} :
    LET expands == next.expandedEncounter = Some(encounterId)
        fetches == next.loading[encounterId] /\ ~encounterList.loading[encounterId]
    IN /\ conditionFetches.shown
       /\ expands => conditionFetches.expansions[encounterId] < MaxExpansions
       /\ encounterList' = next
       /\ conditionFetches' =
            [conditionFetches EXCEPT
               !.pending = IF fetches THEN @ \cup {encounterId} ELSE @,
               !.calls[encounterId] = IF fetches THEN @ + 1 ELSE @,
               !.bases = IF fetches
                           THEN @ \cup {BaseUrl(conditionsCall(encounterId).serverUrl)}
                           ELSE @,
               !.expansions[encounterId] = IF expands THEN @ + 1 ELSE @]

\* the call for a row settles and the rest of toggleEncounter runs
SettleConditions(encounterId, r) ==
  /\ encounterId \in conditionFetches.pending
  /\ encounterList' = conditionsLoaded(encounterList, encounterId,
                                       fetchConditionsForEncounter(r))
  /\ conditionFetches' = [conditionFetches EXCEPT !.pending = @ \ {encounterId}]

(***************************************************************************)
(* PatientDetail (src/components/profile-info.tsx).  loadPatientData       *)
(* awaits fetchPatientById, fetchLatestEncounters and                      *)
(* fetchConditionsForPatient one after the other; it is cut at its awaits, *)
(* and a run that waits is an element of detailLoads.pending with the      *)
(* number of the await it waits at.  Runs overlap when the effect or the   *)
(* Retry button starts one while another waits.                            *)
(***************************************************************************)
MaxLoads == 3        \* most runs of loadPatientData

\* the useState initial values
PatientDetailInitial ==
  [patient |-> Absent, encounters |-> <<>>, conditions |-> <<>>,
   loading |-> TRUE, error |-> Absent, notFound |-> FALSE]

\* the ids of the patients the detail is shown for
PatientIds == {"p1", "p2"}

\* Home has no patient selected and no PatientDetail is mounted
NoDetailLoads == [started |-> 0, pending |-> <<>>, selectedPatientId |-> Absent]

\* loadPatientData up to the first await
loadStarted(st) ==
  [st EXCEPT !.loading = TRUE, !.error = Absent, !.notFound = FALSE]

\* the catch and finally clauses of loadPatientData
loadFailed(st, message) ==
  IF message # <<>> /\ Includes(message, <<"not", "found">>)
    THEN [st EXCEPT !.notFound = TRUE, !.loading = FALSE]
    ELSE [st EXCEPT !.error = Some(IF message # <<>> THEN message
                                   ELSE <<"Failed", "to", "load", "patient", "data">>),
                    !.loading = FALSE]

\* loadPatientData from the first await to the second: res is what
\* fetchPatientById handed back
patientLoaded(st, res) ==
  IF res.threw THEN loadFailed(st, res.message)
  ELSE [st EXCEPT !.patient = Some(res.value.patients)]

\* from the second await to the third: res is from fetchLatestEncounters
encountersLoaded(st, res) ==
  IF res.threw THEN loadFailed(st, res.message)
  ELSE [st EXCEPT !.encounters = res.value.patients]

\* from the third await to the end: res is from fetchConditionsForPatient
patientConditionsLoaded(st, res) ==
  IF res.threw THEN loadFailed(st, res.message)
  ELSE [st EXCEPT !.conditions = res.value.patients, !.loading = FALSE]

\* which of its cards PatientDetail renders
Rendered(st) ==
  IF st.loading THEN "loading"
  ELSE IF st.notFound THEN "not found"
  ELSE IF st.error # Absent THEN "error"
  ELSE IF st.patient = Absent THEN "no patient"
  ELSE "patient"

\* the replies to GET Patient/{id}: a failure, 404, 500, a 500 whose status
\* text has the words "not found", the patient
PatientReplies ==
  {NetworkFailure, HttpError(404), HttpError(500),
   WithStatusText(HttpError(500), <<"Host", "not", "found">>),
   Bundle(Absent, Some(Entries(0, 1)))}

\* the replies to the searches for encounters and conditions
DetailListReplies == {NetworkFailure, HttpError(500), Bundle(Absent, Some(Entries(0, 1)))}

\* a run of loadPatientData begins
StartLoad ==
  /\ detailLoads.started < MaxLoads
  /\ patientDetail' = loadStarted(patientDetail)
  /\ detailLoads' = [detailLoads EXCEPT !.started = @ + 1,
                                        !.pending = Append(@, 1)]

\* run i goes on to its next await, or ends
Advance(i, next, ended) ==
  /\ patientDetail' = next
  /\ detailLoads' =
       [detailLoads EXCEPT
          !.pending = IF ended THEN Without(@, i) ELSE [@ EXCEPT ![i] = @ + 1]]

\* PatientDetail is mounted and its effect has run
PatientDetailMounted ==
  /\ patientDetail = loadStarted(PatientDetailInitial)
  /\ detailLoads = [started |-> 1, pending |-> <<1>>, selectedPatientId |-> Some("p1")]

\* the user picks the other server: the effect of a mounted detail runs again
DetailSelectServer ==
  \E url \in FHIR_SERVERS \ {serverUrl} :
    /\ handleServerChange(url)
    /\ IF detailLoads.selectedPatientId # Absent THEN StartLoad
       ELSE UNCHANGED detailVars
    /\ UNCHANGED <<svcVars, listVars, screenVars, formVars>>

\* Home.handleBackToSearch, the onBack of every card but the loading card,
\* which has no button: PatientDetail is unmounted; its runs stay on their way
\* and their replies set the state of no mounted detail
BackToSearch ==
  /\ detailLoads.selectedPatientId # Absent
  /\ Rendered(patientDetail) # "loading"
  /\ patientDetail' = PatientDetailInitial
  /\ detailLoads' = [detailLoads EXCEPT !.pending = <<>>, !.selectedPatientId = Absent]
  /\ UNCHANGED <<svcVars, viewVars, localStorage, screenVars, formVars>>

\* Home.handlePatientSelect from a row of the list: a PatientDetail is mounted
\* for the patient and its effect runs
SelectPatient(id) ==
  /\ detailLoads.selectedPatientId = Absent
  /\ detailLoads.started < MaxLoads
  /\ patientDetail' = loadStarted(PatientDetailInitial)
  /\ detailLoads' = [detailLoads EXCEPT !.started = @ + 1, !.pending = <<1>>,
                                        !.selectedPatientId = Some(id)]
  /\ UNCHANGED <<svcVars, viewVars, localStorage, screenVars, formVars>>

\* the Retry button of the error card
DetailRetry ==
  /\ Rendered(patientDetail) = "error"
  /\ StartLoad
  /\ UNCHANGED <<svcVars, viewVars, localStorage, screenVars, formVars>>

\* GET Patient/{id} of run i is answered with r
PatientArrives(i, r) ==
  /\ i \in 1..Len(detailLoads.pending) /\ detailLoads.pending[i] = 1
  /\ Advance(i, patientLoaded(patientDetail, fetchPatientById(r)),
             fetchPatientById(r).threw)
  /\ UNCHANGED <<svcVars, viewVars, localStorage, screenVars, formVars>>

EncountersArrive(i, r) ==
  /\ i \in 1..Len(detailLoads.pending) /\ detailLoads.pending[i] = 2
  /\ Advance(i, encountersLoaded(patientDetail, fetchLatestEncounters(r)),
             fetchLatestEncounters(r).threw)
  /\ UNCHANGED <<svcVars, viewVars, localStorage, screenVars, formVars>>

PatientConditionsArrive(i, r) ==
  /\ i \in 1..Len(detailLoads.pending) /\ detailLoads.pending[i] = 3
  /\ Advance(i, patientConditionsLoaded(patientDetail, fetchConditionsForPatient(r)),
             TRUE)
  /\ UNCHANGED <<svcVars, viewVars, localStorage, screenVars, formVars>>

(***************************************************************************)
(* CreatePatient (src/components/create-patient.tsx).  The texts of the    *)
(* form are sequences of characters, so that their lengths and the pattern *)
(* of the birth date are computed.  Of the fields the schema leaves        *)
(* optional only email is kept; the others pass every validation.          *)
(* form.handleSubmit validates the values with the resolver and calls      *)
(* onSubmit when no field has an error; once the form was submitted a      *)
(* field is validated again when it is edited.                             *)
(***************************************************************************)
MaxSubmits == 2      \* most submissions of the form
MaxFormMounts == 2   \* most mounts of the form
MaxOrgRequests == 2  \* most GET Organization that wait at once

Digits == {"0", "1", "2", "3", "4", "5", "6", "7", "8", "9"}
Genders == {"male", "female", "other", "unknown"}

\* /^\d{4}-\d{2}-\d{2}$/
IsDate(text) ==
  /\ Len(text) = 10
  /\ \A i \in {1, 2, 3, 4, 6, 7, 9, 10} : text[i] \in Digits
  /\ text[5] = "-" /\ text[8] = "-"

\* z.string().email() on texts of letters, "@" and ".": one "@" after a
\* local part that neither begins nor ends with a dot, no two dots in a row
\* anywhere, then a domain of labels that are not empty and a top level of two
\* letters or more
IsEmail(text) ==
  \E at \in 2..Len(text) :
    /\ text[at] = "@"
    /\ \A i \in 1..Len(text) : text[i] = "@" => i = at
    /\ text[1] # "." /\ text[at - 1] # "."
    /\ \A i \in 2..Len(text) : ~(text[i] = "." /\ text[i - 1] = ".")
    /\ \E dot \in (at + 2)..(Len(text) - 2) :
         /\ text[dot] = "."
         /\ \A i \in (dot + 1)..Len(text) : text[i] # "."
         /\ \A i \in (at + 1)..dot : text[i] = "." => (text[i - 1] \notin {".", "@"})

\* formSchema without the rule for givenName
formSchema_noGivenName(values) ==
  {field \in {"familyName"} : Len(values[field]) < 1}
    \cup {field \in {"gender"} : values[field] \notin Genders}
    \cup {field \in {"birthDate"} : ~IsDate(values[field])}
    \cup {field \in {"email"} : ~(IsEmail(values[field]) \/ values[field] = <<>>)}
    \cup {field \in {"managingOrganization"} : Len(values[field]) < 1}

\* formSchema: the fields of values that do not pass
formSchema(values) ==
  {field \in {"givenName", "familyName"} : Len(values[field]) < 1}
    \cup {field \in {"gender"} : values[field] \notin Genders}
    \cup {field \in {"birthDate"} : ~IsDate(values[field])}
    \cup {field \in {"email"} : ~(IsEmail(values[field]) \/ values[field] = <<>>)}
    \cup {field \in {"managingOrganization"} : Len(values[field]) < 1}

\* the defaultValues of useForm
defaultValues ==
  [givenName |-> <<>>, familyName |-> <<>>, gender |-> "unknown", birthDate |-> <<>>,
   email |-> <<>>, managingOrganization |-> <<>>]

\* the useState initial values and the form of useForm
CreatePatientInitial ==
  [values |-> defaultValues, errors |-> {}, isSubmitted |-> FALSE,
   status |-> [loading |-> FALSE, success |-> FALSE, error |-> Absent],
   organizations |-> <<>>, loadingOrgs |-> TRUE]

\* the tabs of Home; CreatePatient is mounted while the tab "create" is active
HomeTabs == {"search", "view", "dashboard", "create"}

\* Home shows its first tab and no CreatePatient was mounted yet.  pending are
\* the POSTs of the mounted form, stale the number of POSTs of forms that were
\* unmounted, orgsPending the number of GET Organization of the mounted form,
\* timers the number of success timers that wait
NoPosts ==
  [pending |-> <<>>, sent |-> 0, submits |-> 0, orgsPending |-> 0,
   activeTab |-> "search", mounts |-> 0, stale |-> 0, timers |-> 0]

\* the id of an Organization resource, as a text
OrgId(resource) == <<ToString(resource)>>

\* what the user can enter into a field
FieldChoices(st, field) ==
  CASE field = "givenName" -> {<<>>, <<" ">>, <<"A", "n", "n">>}
    [] field = "familyName" -> {<<>>, <<"L", "e", "e">>}
    [] field = "gender" -> {"unknown", "female"}
    [] field = "birthDate" ->
         {<<>>, <<"1", "9", "9", "0", "-", "0", "1", "-", "3", "1">>,
          <<"1", "9", "9", "0", "-", "1", "-", "3", "1">>}
    [] field = "email" ->
         {<<>>, <<"a", "@", "b", ".", "c", "o">>,
          <<"a", ".", ".", "b", "@", "c", ".", "d", "e">>}
    [] field = "managingOrganization" ->
         {OrgId(st.organizations[i]) : i \in 1..Len(st.organizations)}
Fields ==
  {"givenName", "familyName", "gender", "birthDate", "email", "managingOrganization"}

\* the user edits a field
fieldChanged(st, field, value) ==
  LET values == [st.values EXCEPT ![field] = value]
  IN [st EXCEPT !.values = values,
                !.errors = IF st.isSubmitted
                             THEN (@ \ {field}) \cup (formSchema(values) \cap {field})
                             ELSE @]

\* form.handleSubmit(onSubmit) up to the await of createPatient
handleSubmit(st) ==
  LET errors == formSchema(st.values)
  IN IF errors # {}
       THEN [st EXCEPT !.errors = errors, !.isSubmitted = TRUE]
       ELSE [st EXCEPT !.errors = {}, !.isSubmitted = TRUE,
                       !.status = [loading |-> TRUE, success |-> FALSE, error |-> Absent]]

\* onSubmit after the await: res is what createPatient handed back
patientCreated(st, res) ==
  IF res.threw
    THEN [st EXCEPT !.status =
            [loading |-> FALSE, success |-> FALSE,
             error |-> Some(IF res.message # <<>> THEN res.message
                            ELSE <<"Failed", "to", "create", "patient">>)]]
    ELSE [st EXCEPT !.status = [loading |-> FALSE, success |-> TRUE, error |-> Absent],
                    !.values = defaultValues, !.errors = {}, !.isSubmitted = FALSE]

\* loadOrganizations after the await: res is what fetchOrganizations handed back
organizationsLoaded(st, res) ==
  IF res.threw THEN [st EXCEPT !.loadingOrgs = FALSE]
  ELSE [st EXCEPT !.organizations = res.value.patients, !.loadingOrgs = FALSE]

OrganizationReplies ==
  {NetworkFailure, HttpError(500), Bundle(Absent, Absent), Bundle(Absent, Some(Entries(0, 1)))}
CreateReplies == {NetworkFailure, HttpError(500), Bundle(Absent, Absent)}

\* loadOrganizations up to the await
loadOrganizations(st) == [st EXCEPT !.loadingOrgs = TRUE]

\* CreatePatient is mounted by Home under the tab "create" and its effect has
\* run; its requests are the only ones that can change it
createTabOpened(posts) ==
  [posts EXCEPT !.activeTab = "create", !.mounts = @ + 1, !.orgsPending = 1]

\* CreatePatient is unmounted because Home shows the tab next: its requests
\* stay on their way, and their replies set the state of no mounted form
createTabLeft(posts, next) ==
  [posts EXCEPT !.activeTab = next, !.stale = @ + Len(posts.pending),
                !.pending = <<>>, !.orgsPending = 0]

\* CreatePatient is mounted and its effect has run
CreatePatientMounted ==
  /\ createForm = loadOrganizations(CreatePatientInitial)
  /\ formPosts = createTabOpened(NoPosts)

\* no CreatePatient is mounted
FormIdle == createForm = CreatePatientInitial /\ formPosts = NoPosts

\* the user picks another tab of Home: Tabs mounts the content of the active
\* tab only, a form that is mounted again starts from its initial state
SwitchTab(tab) ==
  /\ tab # formPosts.activeTab
  /\ tab = "create" => formPosts.mounts < MaxFormMounts
  /\ createForm' = IF tab = "create" THEN loadOrganizations(CreatePatientInitial)
                   ELSE CreatePatientInitial
  /\ formPosts' = IF tab = "create" THEN createTabOpened(formPosts)
                  ELSE IF formPosts.activeTab = "create" THEN createTabLeft(formPosts, tab)
                  ELSE [formPosts EXCEPT !.activeTab = tab]
  /\ UNCHANGED <<svcVars, viewVars, localStorage, screenVars, detailVars>>

\* the user picks the other server: the effect of a mounted form runs
\* loadOrganizations again, next to the calls that still wait
FormSelectServer ==
  \E url \in FHIR_SERVERS \ {serverUrl} :
    /\ formPosts.orgsPending < MaxOrgRequests
    /\ handleServerChange(url)
    /\ IF formPosts.activeTab = "create"
         THEN /\ createForm' = loadOrganizations(createForm)
              /\ formPosts' = [formPosts EXCEPT !.orgsPending = @ + 1]
         ELSE UNCHANGED formVars
    /\ UNCHANGED <<svcVars, listVars, screenVars, detailVars>>

EditField(field, value) ==
  /\ formPosts.activeTab = "create"
  /\ value # createForm.values[field]
  /\ createForm' = fieldChanged(createForm, field, value)
  /\ UNCHANGED <<formPosts, svcVars, viewVars, localStorage, screenVars, detailVars>>

\* the submit button, which is disabled while status.loading
FormSubmit ==
  /\ formPosts.activeTab = "create"
  /\ ~createForm.status.loading
  /\ formPosts.submits < MaxSubmits
  /\ createForm' = handleSubmit(createForm)
  /\ formPosts' =
       IF createForm'.status.loading
         THEN [formPosts EXCEPT !.submits = @ + 1, !.sent = @ + 1,
                                !.pending = Append(@, createForm.values)]
         ELSE [formPosts EXCEPT !.submits = @ + 1]
  /\ UNCHANGED <<svcVars, viewVars, localStorage, screenVars, detailVars>>

\* POST Patient of the mounted form is answered with r: the rest of onSubmit
\* runs, and after a success it arms the timer that calls onSuccess
PostAnswered(r) ==
  /\ formPosts.pending # <<>>
  /\ createForm' = patientCreated(createForm, createPatient(r))
  /\ formPosts' = [formPosts EXCEPT !.pending = Tail(@),
                                    !.timers = IF createPatient(r).threw THEN @ ELSE @ + 1]
  /\ UNCHANGED <<svcVars, viewVars, localStorage, screenVars, detailVars>>

\* POST Patient of a form that was unmounted is answered with r: the rest of
\* its onSubmit runs all the same, its state is shown nowhere
StalePostAnswered(r) ==
  /\ formPosts.stale > 0
  /\ formPosts' = [formPosts EXCEPT !.stale = @ - 1,
                                    !.timers = IF createPatient(r).threw THEN @ ELSE @ + 1]
  /\ UNCHANGED <<createForm, svcVars, viewVars, localStorage, screenVars, detailVars>>

\* a success timer fires: onSuccess makes "view" the active tab of Home, which
\* unmounts the form that is mounted then
SuccessTimerFires ==
  /\ formPosts.timers > 0
  /\ createForm' = CreatePatientInitial
  /\ formPosts' =
       IF formPosts.activeTab = "create"
         THEN [createTabLeft(formPosts, "view") EXCEPT !.timers = @ - 1]
         ELSE [formPosts EXCEPT !.activeTab = "view", !.timers = @ - 1]
  /\ UNCHANGED <<svcVars, viewVars, localStorage, screenVars, detailVars>>

\* one GET Organization of the mounted form is answered with r
OrganizationsArrive(r) ==
  /\ formPosts.orgsPending > 0
  /\ createForm' = organizationsLoaded(createForm, fetchOrganizations(r))
  /\ formPosts' = [formPosts EXCEPT !.orgsPending = @ - 1]
  /\ UNCHANGED <<svcVars, viewVars, localStorage, screenVars, detailVars>>

\* no component of the detail and form screens is mounted
AppIdle ==
  /\ encounterList = EncounterListInitial
  /\ conditionFetches = NoConditionFetches
  /\ patientDetail = PatientDetailInitial
  /\ detailLoads = NoDetailLoads
  /\ FormIdle

(***************************************************************************)
(* The data-access layer on its own: a caller invokes a function (the      *)
(* promise is pending), the server answers the requests the call sends     *)
(* (the promise settles), the caller resumes.                              *)
(***************************************************************************)
PageSizeArgs == {Absent} \cup {Some(n) : n \in 0..MaxPageSize} \cup {Some(ScenarioPageSize)}
PageNumberArgs == {Absent} \cup {Some(n) : n \in 1..MaxPage}
SortParams == {"-_lastUpdated", "family"}
SearchInputs ==
  {NoFilters,
   [NoFilters EXCEPT !["identifier"] = Some("x")],
   [NoFilters EXCEPT !["name"] = Some(" "), !["given"] = Some("")]}
LookupReplies ==
  {NetworkFailure} \cup {HttpError(s) : s \in Statuses}
    \cup {Bundle(Absent, e) : e \in EntryLists}

\* a call that waits for a reply: its arguments, the replies it has received
\* (c1, r, c2), the reply it waits for and the requests it has sent so far
Call(fn, params, size, pageNumber, sort) ==
  [fn |-> fn, searchParams |-> params, pageSize |-> size,
   pageNumber |-> pageNumber, sort |-> sort,
   c1 |-> NoReply, r |-> NoReply, c2 |-> NoReply, phase |-> "pending",
   awaits |-> "r", sent |-> <<>>]
Lookup(fn) == Call(fn, NoFilters, Absent, Absent, "")
Idle == [Lookup("none") EXCEPT !.phase = "idle", !.awaits = ""]
\* the call has sent one more request and waits for the reply to it
Awaiting(c, reply, request) == [c EXCEPT !.awaits = reply, !.sent = Append(@, request)]
Settled(c1, r, c2) ==
  [call EXCEPT !.c1 = c1, !.r = r, !.c2 = c2, !.phase = "settled", !.awaits = ""]

\* the view is not mounted
ViewIdle ==
  /\ serverUrl = FHIRLAB /\ initialPatients = Absent /\ paginationData = Absent
  /\ IsState(InitialState)
  /\ lastGood = [size |-> InitialPageSize, sortParam |-> "-_lastUpdated"]
  /\ clicks = 0
  /\ tags = [issued |-> 0, pending |-> <<>>, passed |-> 0]

SvcInit ==
  /\ call = Idle
  /\ ret = Return(NoPage, <<>>)
  /\ ViewIdle
  /\ localStorage = Absent
  /\ AppIdle

\* the page request of fetchPatients for the page size it works with
FetchPatientsPage(c, size) ==
  PageRequest({}, c.sort, size, (Default(c.pageNumber, 1) - 1) * size)

\* fetchPatients up to its first await: the count request when no page size
\* is given, the page request otherwise
CallFetchPatients ==
  \E ps \in PageSizeArgs, pn \in PageNumberArgs, s \in SortParams :
    /\ call.phase = "idle"
    /\ \E c \in {Call("fetchPatients", NoFilters, ps, pn, s)} :
         call' = IF NeedsPageSize(ps)
                   THEN Awaiting(c, "c1", CountRequest)
                   ELSE Awaiting(c, "r", FetchPatientsPage(c, ps[1]))
    /\ UNCHANGED <<ret, viewVars, appVars>>

\* the count that stands in for the page size is answered: the page request
\* goes out
FetchPatientsCounted ==
  \E c1 \in CountReplies :
    /\ call.phase = "pending" /\ call.fn = "fetchPatients" /\ call.awaits = "c1"
    /\ call' = Awaiting([call EXCEPT !.c1 = c1], "r",
                        FetchPatientsPage(call, fetchPatientCount(c1)))
    /\ UNCHANGED <<ret, viewVars, appVars>>

\* the page request is answered: the call settles, or asks for the count
\* when the page has resources and total 0
FetchPatientsPaged ==
  \E r \in PageReplies :
    /\ call.phase = "pending" /\ call.fn = "fetchPatients" /\ call.awaits = "r"
    /\ IF ~r.fail /\ ok(r) /\ Suspicious(r)
         THEN /\ call' = Awaiting([call EXCEPT !.r = r], "c2", CountRequest)
              /\ UNCHANGED ret
         ELSE /\ call' = Settled(call.c1, r, NoReply)
              /\ ret' = fetchPatients(call.pageSize, call.pageNumber, call.sort,
                                      call.c1, r, NoReply)
    /\ UNCHANGED <<viewVars, appVars>>

\* the count request of the reconciliation is answered: the call settles
FetchPatientsRecounted ==
  \E c2 \in CountReplies :
    /\ call.phase = "pending" /\ call.fn = "fetchPatients" /\ call.awaits = "c2"
    /\ call' = Settled(call.c1, call.r, c2)
    /\ ret' = fetchPatients(call.pageSize, call.pageNumber, call.sort,
                            call.c1, call.r, c2)
    /\ UNCHANGED <<viewVars, appVars>>

CallSearchPatients ==
  \E sp \in SearchInputs, ps \in PageSizeArgs, pn \in PageNumberArgs, s \in SortParams :
    /\ call.phase = "idle"
    /\ call' = Awaiting(Call("searchPatients", sp, ps, pn, s), "r",
                        searchPatients(sp, ps, pn, s, NoReply).sent[1])
    /\ UNCHANGED <<ret, viewVars, appVars>>

SettleSearchPatients ==
  \E r \in PageReplies :
    /\ call.phase = "pending" /\ call.fn = "searchPatients"
    /\ call' = Settled(NoReply, r, NoReply)
    /\ ret' = searchPatients(call.searchParams, call.pageSize, call.pageNumber,
                             call.sort, r)
    /\ UNCHANGED <<viewVars, appVars>>

LookupFns == {"createPatient", "fetchPatientById", "fetchLatestEncounters",
              "fetchConditionsForEncounter", "fetchConditionsForPatient",
              "fetchOrganizations"}

\* what a function of one request hands back for the reply r
LookupResult(fn, r) ==
  CASE fn = "createPatient" -> createPatient(r)
    [] fn = "fetchPatientById" -> fetchPatientById(r)
    [] fn = "fetchLatestEncounters" -> fetchLatestEncounters(r)
    [] fn = "fetchConditionsForEncounter" -> fetchConditionsForEncounter(r)
    [] fn = "fetchConditionsForPatient" -> fetchConditionsForPatient(r)
    [] fn = "fetchOrganizations" -> fetchOrganizations(r)

CallLookup ==
  \E fn \in LookupFns :
    /\ call.phase = "idle"
    /\ call' = Awaiting(Lookup(fn), "r", LookupResult(fn, NoReply).sent[1])
    /\ UNCHANGED <<ret, viewVars, appVars>>

SettleLookup ==
  \E r \in LookupReplies :
    /\ call.phase = "pending" /\ call.fn \in LookupFns
    /\ call' = Settled(NoReply, r, NoReply)
    /\ ret' = LookupResult(call.fn, r)
    /\ UNCHANGED <<viewVars, appVars>>

\* the limits fetchAllConditions is called with: none, and this one
LimitArgs == {Absent, Some(MaxEntries)}

\* fetchAllConditions up to its first await; the limit is kept as the page size
CallFetchAllConditions ==
  \E limit \in LimitArgs :
    /\ call.phase = "idle"
    /\ \E c \in {Call("fetchAllConditions", NoFilters, limit, Absent, "")} :
         call' = IF NeedsLimit(limit)
                   THEN Awaiting(c, "c1", ConditionCountRequest)
                   ELSE Awaiting(c, "r", ConditionsRequest(limit[1]))
    /\ UNCHANGED <<ret, viewVars, appVars>>

\* the count of the conditions is answered: the call fails, or asks for
\* that many conditions
AllConditionsCounted ==
  \E c1 \in CountReplies :
    /\ call.phase = "pending" /\ call.fn = "fetchAllConditions" /\ call.awaits = "c1"
    /\ IF c1.fail \/ ~ok(c1)
         THEN /\ call' = Settled(c1, NoReply, NoReply)
              /\ ret' = fetchAllConditions(call.pageSize, c1, NoReply)
         ELSE /\ call' = Awaiting([call EXCEPT !.c1 = c1], "r",
                                  ConditionsRequest(ReportedTotal(c1)))
              /\ UNCHANGED ret
    /\ UNCHANGED <<viewVars, appVars>>

SettleAllConditions ==
  \E r \in LookupReplies :
    /\ call.phase = "pending" /\ call.fn = "fetchAllConditions" /\ call.awaits = "r"
    /\ call' = Settled(call.c1, r, NoReply)
    /\ ret' = fetchAllConditions(call.pageSize, call.c1, r)
    /\ UNCHANGED <<viewVars, appVars>>

\* the caller has consumed the settled promise
Resume ==
  /\ call.phase = "settled"
  /\ call' = Idle
  /\ ret' = Return(NoPage, <<>>)
  /\ UNCHANGED <<viewVars, appVars>>

SvcNext ==
  \/ CallFetchPatients \/ FetchPatientsCounted \/ FetchPatientsPaged
  \/ FetchPatientsRecounted
  \/ CallSearchPatients \/ SettleSearchPatients
  \/ CallLookup \/ SettleLookup
  \/ CallFetchAllConditions \/ AllConditionsCounted \/ SettleAllConditions
  \/ Resume

\* the requests a call has sent are the requests of what it hands back
SentAsReturned == call.phase = "settled" => ret.sent = call.sent

SvcSpec == SvcInit /\ [][SvcNext]_vars

(***************************************************************************)
(* The list view: PatientList mounted with some props under the default    *)
(* server, the user acting on it and the server answering.                 *)
(***************************************************************************)
ViewInit ==
  /\ call = Idle
  /\ ret = Return(NoPage, <<>>)
  /\ \E stored \in StoredValues :
       /\ serverUrl = ServerProviderMounted(stored).serverUrl
       /\ localStorage = ServerProviderMounted(stored).localStorage
  /\ \E props \in PropsChoices :
       initialPatients = props[1] /\ paginationData = props[2]
  /\ IsState(Mounted)
  /\ lastGood = [size |-> InitialPageSize, sortParam |-> "-_lastUpdated"]
  /\ clicks = 0
  /\ tags = [issued |-> Len(inflight), pending |-> [i \in 1..Len(inflight) |-> i],
             passed |-> 0]
  /\ AppIdle

ViewNext ==
  \/ ClickSort \/ ChangePageSize \/ ClickPage \/ ClickRetry \/ ClickRefresh
  \/ ChangeServer \/ TypeFilter \/ PropsChanged \/ AskRecount \/ SettleLoad

ViewSpec == ViewInit /\ [][ViewNext]_vars

(***************************************************************************)
(* The server selection and the EncounterList: the user picks servers,     *)
(* reloads the page, opens and closes the detail of a patient and expands  *)
(* its encounters, and the server answers.                                 *)
(***************************************************************************)

\* the application starts with the storage holding some value
AppInit ==
  /\ call = Idle
  /\ ret = Return(NoPage, <<>>)
  /\ initialPatients = Absent /\ paginationData = Absent
  /\ IsState(InitialState)
  /\ lastGood = [size |-> InitialPageSize, sortParam |-> "-_lastUpdated"]
  /\ clicks = 0
  /\ tags = [issued |-> 0, pending |-> <<>>, passed |-> 0]
  /\ \E stored \in StoredValues :
       /\ serverUrl = ServerProviderMounted(stored).serverUrl
       /\ localStorage = ServerProviderMounted(stored).localStorage
  /\ AppIdle

\* the user picks the other server in ServerSelector: the effect of a
\* PatientDetail that is shown starts loadPatientData, the loading card is
\* rendered and the EncounterList is unmounted
SelectServer ==
  \E url \in FHIR_SERVERS \ {serverUrl} :
    /\ handleServerChange(url)
    /\ encounterList' = EncounterListInitial
    /\ conditionFetches' = encountersHidden(conditionFetches)
    /\ UNCHANGED <<svcVars, listVars, restVars>>

\* Home.handleBackToSearch: PatientDetail and its EncounterList are unmounted
DetailClosed ==
  /\ conditionFetches.shown
  /\ encounterList' = EncounterListInitial
  /\ conditionFetches' = encountersHidden(conditionFetches)
  /\ UNCHANGED <<svcVars, viewVars, localStorage, restVars>>

\* loadPatientData has ended for a patient with encounters, after
\* Home.handlePatientSelect or after a change of server: PatientDetail renders
\* the patient card and a new EncounterList is mounted
EncountersShown ==
  /\ ~conditionFetches.shown
  /\ conditionFetches.mounts < MaxListMounts
  /\ encounterList' = EncounterListInitial
  /\ conditionFetches' = encountersShown(conditionFetches)
  /\ UNCHANGED <<svcVars, viewVars, localStorage, restVars>>

\* the page is loaded again: ServerProvider and Home are mounted anew with no
\* patient selected, the pending calls of the page that is left are gone
Reload ==
  /\ serverUrl' = ServerProviderMounted(localStorage).serverUrl
  /\ localStorage' = ServerProviderMounted(localStorage).localStorage
  /\ encounterList' = EncounterListInitial
  /\ conditionFetches' = encountersHidden(conditionFetches)
  /\ UNCHANGED <<svcVars, listVars, restVars>>

\* the item is removed or overwritten from outside the application
StorageEdited ==
  \E stored \in StoredValues \ {localStorage} :
    /\ localStorage' = stored
    /\ UNCHANGED <<svcVars, viewVars, screenVars, restVars>>

ExpandOrCollapse ==
  \E id \in EncounterIds :
    /\ ToggleEncounter(id)
    /\ UNCHANGED <<svcVars, viewVars, localStorage, restVars>>

ConditionsArrive ==
  \E id \in EncounterIds, r \in ConditionReplies :
    /\ SettleConditions(id, r)
    /\ UNCHANGED <<svcVars, viewVars, localStorage, restVars>>

AppNext ==
  \/ SelectServer \/ Reload \/ StorageEdited
  \/ DetailClosed \/ EncountersShown
  \/ ExpandOrCollapse \/ ConditionsArrive

AppSpec == AppInit /\ [][AppNext]_vars

(***************************************************************************)
(* The patient detail: Home shows PatientDetail for the patient selected;  *)
(* the user picks servers, presses Retry, goes back to the list and        *)
(* selects a patient again, and the three requests of each run are         *)
(* answered.                                                               *)
(***************************************************************************)
DetailInit ==
  /\ call = Idle
  /\ ret = Return(NoPage, <<>>)
  /\ initialPatients = Absent /\ paginationData = Absent
  /\ IsState(InitialState)
  /\ lastGood = [size |-> InitialPageSize, sortParam |-> "-_lastUpdated"]
  /\ clicks = 0
  /\ tags = [issued |-> 0, pending |-> <<>>, passed |-> 0]
  /\ \E stored \in StoredValues :
       /\ serverUrl = ServerProviderMounted(stored).serverUrl
       /\ localStorage = ServerProviderMounted(stored).localStorage
  /\ encounterList = EncounterListInitial
  /\ conditionFetches = NoConditionFetches
  /\ PatientDetailMounted
  /\ FormIdle

PatientAnswered == \E i \in 1..MaxLoads, r \in PatientReplies : PatientArrives(i, r)
EncountersAnswered == \E i \in 1..MaxLoads, r \in DetailListReplies : EncountersArrive(i, r)
PatientConditionsAnswered ==
  \E i \in 1..MaxLoads, r \in DetailListReplies : PatientConditionsArrive(i, r)

PatientSelected == \E id \in PatientIds : SelectPatient(id)

DetailNext ==
  \/ DetailSelectServer \/ BackToSearch \/ PatientSelected \/ DetailRetry
  \/ PatientAnswered \/ EncountersAnswered \/ PatientConditionsAnswered

DetailSpec == DetailInit /\ [][DetailNext]_vars

(***************************************************************************)
(* The creation form: Home shows CreatePatient under the tab "create"; the *)
(* user edits the fields, submits, picks servers and tabs, the requests    *)
(* are answered and the success timers fire.                               *)
(***************************************************************************)
FormInit ==
  /\ call = Idle
  /\ ret = Return(NoPage, <<>>)
  /\ initialPatients = Absent /\ paginationData = Absent
  /\ IsState(InitialState)
  /\ lastGood = [size |-> InitialPageSize, sortParam |-> "-_lastUpdated"]
  /\ clicks = 0
  /\ tags = [issued |-> 0, pending |-> <<>>, passed |-> 0]
  /\ \E stored \in StoredValues :
       /\ serverUrl = ServerProviderMounted(stored).serverUrl
       /\ localStorage = ServerProviderMounted(stored).localStorage
  /\ encounterList = EncounterListInitial
  /\ conditionFetches = NoConditionFetches
  /\ patientDetail = PatientDetailInitial
  /\ detailLoads = NoDetailLoads
  /\ CreatePatientMounted

Edit == \E field \in Fields : \E value \in FieldChoices(createForm, field) : EditField(field, value)
Created == \E r \in CreateReplies : PostAnswered(r)
CreatedUnseen == \E r \in CreateReplies : StalePostAnswered(r)
OrganizationsAnswered == \E r \in OrganizationReplies : OrganizationsArrive(r)
TabPicked == \E tab \in HomeTabs : SwitchTab(tab)

FormNext ==
  \/ Edit \/ FormSubmit \/ Created \/ OrganizationsAnswered
  \/ FormSelectServer \/ TabPicked \/ SuccessTimerFires \/ CreatedUnseen

FormSpec == FormInit /\ [][FormNext]_vars

(***************************************************************************)
(* Properties of the data-access layer.  They read the call and its        *)
(* replies as the server gave them, and what the call handed back.         *)
(***************************************************************************)
IsSettled(fns) == call.phase = "settled" /\ call.fn \in fns
PagedFns == {"fetchPatients", "searchPatients"}
Is2xx(r) == ~r.fail /\ r.status \in 200..299
IsErrorStatus(r) == ~r.fail /\ r.status \notin 200..299
EntryCount(r) == IF r.entry = Absent THEN 0 ELSE Len(r.entry[1])
\* the page reply reports no total, or total 0, and carries resources
ZeroTotalWithResources(r) ==
  Is2xx(r) /\ r.total \in {Absent, Some(0)} /\ EntryCount(r) > 0
PositiveCount(c) == Is2xx(c) /\ c.total # Absent /\ c.total[1] > 0
RequestedPage == Default(call.pageNumber, 1)
\* tp is max(1, ceil(total / pageSize)) as JavaScript computes it
IsTotalPages(tp, total, size) ==
  IF size > 0
    THEN /\ tp.k = "num" /\ tp.n >= 1
         /\ tp.n * size >= total
         /\ (tp.n = 1 \/ (tp.n - 1) * size < total)
  ELSE IF size < 0
    THEN /\ tp.k = "num" /\ tp.n >= 1
         /\ tp.n * size <= total
         /\ (tp.n = 1 \/ (tp.n - 1) * size > total)
  ELSE tp = (IF total > 0 THEN PosInf ELSE IF total < 0 THEN Num(1) ELSE NaN)

\* C1: when the page reply reports total 0 and carries k > 0 resources for
\* page p with page size s, the total returned by fetchPatients and by
\* searchPatients is at least (p - 1) * s + k, whatever the count endpoint
\* answers (stated for the page sizes s > 0).
C1_TotalAtLeastSeen ==
  (IsSettled(PagedFns) /\ ZeroTotalWithResources(call.r)
     /\ (~ret.threw => ret.value.pageSize > 0))
    => /\ ~ret.threw
       /\ ret.value.total >=
            (ret.value.pageNumber - 1) * ret.value.pageSize + EntryCount(call.r)

\* C2: whenever fetchPatients or searchPatients returns with page size > 0
\* and total >= 0, the returned totalPages is max(1, ceil(total / pageSize))
\* of the returned total.
C2_TotalPages ==
  (IsSettled(PagedFns) /\ ~ret.threw
     /\ ret.value.pageSize > 0 /\ ret.value.total >= 0)
    => LET tp == ret.value.totalPages
       IN /\ tp.k = "num" /\ tp.n >= 1
          /\ tp.n * ret.value.pageSize >= ret.value.total
          /\ (tp.n = 1 \/ (tp.n - 1) * ret.value.pageSize < ret.value.total)

\* a total that does not fill its last page, on more than one page
C2_Witness ==
  /\ IsSettled(PagedFns) /\ ~ret.threw
  /\ ret.value.pageSize = 3 /\ ret.value.total = 4
  /\ ret.value.totalPages = Num(2)

\* C3: the page size fetchPatients sends in the page request and divides by
\* is never zero, also when the caller left it out and it was resolved
\* through the count endpoint.
C3_PageSizeNeverZero ==
  IsSettled({"fetchPatients"})
    => /\ \A i \in DOMAIN ret.sent :
            ret.sent[i].kind = "page" => ret.sent[i].count # 0
       /\ ~ret.threw => ret.value.pageSize # 0

\* C4: in fetchPatients, when the page reply reports total 0 with resources
\* and the count endpoint then answers c > 0, the result has total = c,
\* totalPages = max(1, ceil(c / pageSize)) and the requested page number.
C4_CountUsed ==
  (IsSettled({"fetchPatients"}) /\ ZeroTotalWithResources(call.r)
     /\ PositiveCount(call.c2))
    => /\ ~ret.threw
       /\ ret.value.total = call.c2.total[1]
       /\ ret.value.pageNumber = RequestedPage
       /\ IsTotalPages(ret.value.totalPages, call.c2.total[1], ret.value.pageSize)

\* page size 10, page 2, a full page reported with total 0, count 47:
\* total 47, 5 pages, page 2
C4_Witness ==
  /\ IsSettled({"fetchPatients"})
  /\ call.pageSize = Some(ScenarioPageSize) /\ call.pageNumber = Some(2)
  /\ call.r = Bundle(Some(0), Some(Entries(0, ScenarioPageSize)))
  /\ call.c2 = Bundle(Some(ScenarioCount), Absent)
  /\ ret.value.total = ScenarioCount
  /\ ret.value.totalPages = Num(5)
  /\ ret.value.pageNumber = 2

\* C5: when the reported total is 0 with k > 0 resources and there is no
\* positive count (fetchPatients: the count request fails or answers no
\* positive total; searchPatients: always), the returned total is
\* (pageNumber - 1) * pageSize + k, plus 1 exactly when k = pageSize.
C5_Estimate ==
  (/\ IsSettled(PagedFns) /\ ZeroTotalWithResources(call.r)
   /\ call.fn = "fetchPatients" => ~PositiveCount(call.c2))
    => /\ ~ret.threw
       /\ ret.value.total =
            (RequestedPage - 1) * ret.value.pageSize + EntryCount(call.r)
              + (IF EntryCount(call.r) = ret.value.pageSize THEN 1 ELSE 0)

\* a full page 2 of size 3 and a count request that failed: total 7
C5_Witness ==
  /\ IsSettled({"fetchPatients"}) /\ ZeroTotalWithResources(call.r)
  /\ call.c2 = NetworkFailure
  /\ call.pageSize = Some(3) /\ call.pageNumber = Some(2)
  /\ EntryCount(call.r) = 3
  /\ ret.value.total = 7

\* C6: a page reply with total 0 and resources never makes fetchPatients or
\* searchPatients fail, whatever the count endpoint does: the call returns
\* the resources, and with them a total and a page count that are positive.
C6_NeverFails ==
  (IsSettled(PagedFns) /\ ZeroTotalWithResources(call.r))
    => /\ ~ret.threw
       /\ ret.value.patients =
            [i \in 1..EntryCount(call.r) |-> call.r.entry[1][i].resource]
       /\ ret.value.pageSize > 0
            => /\ ret.value.total > 0
               /\ ret.value.totalPages.k = "num" /\ ret.value.totalPages.n >= 1

\* the count endpoint answered with an HTTP error, and the page was returned
C6_Witness ==
  /\ IsSettled({"fetchPatients"}) /\ ZeroTotalWithResources(call.r)
  /\ IsErrorStatus(call.c2)
  /\ ~ret.threw /\ Len(ret.value.patients) = 2 /\ ret.value.total > 0

ThrowingFns == {"fetchPatients", "searchPatients", "createPatient",
                "fetchPatientById", "fetchConditionsForEncounter",
                "fetchOrganizations"}
ToleratedFns == {"fetchLatestEncounters", "fetchConditionsForPatient"}

\* C7: a non-2xx response makes fetchPatients, searchPatients, createPatient,
\* fetchPatientById, fetchConditionsForEncounter and fetchOrganizations
\* fail; fetchLatestEncounters and fetchConditionsForPatient turn only a 404
\* into a normal result, and every other error status makes them fail too.
C7_ErrorsPropagate ==
  (IsSettled(ThrowingFns \cup ToleratedFns) /\ IsErrorStatus(call.r))
    => /\ call.fn \in ThrowingFns => ret.threw
       /\ call.fn \in ToleratedFns => (ret.threw <=> call.r.status # 404)

\* C8: fetchLatestEncounters and fetchConditionsForPatient return the empty
\* list and do not throw when the server answers 404.
C8_NotFoundIsEmpty ==
  (IsSettled(ToleratedFns) /\ ~call.r.fail /\ call.r.status = 404)
    => (~ret.threw /\ ret.value.patients = <<>>)

C8_Witness ==
  /\ IsSettled({"fetchLatestEncounters"}) /\ call.r = HttpError(404)
  /\ ~ret.threw /\ ret.value.patients = <<>>

(***************************************************************************)
(* Properties of PatientList.  A step that raises clicks is a user action, *)
(* a step that shortens inflight is the completion of a request.           *)
(***************************************************************************)
UserAction == clicks' = clicks + 1
Completed == Len(inflight') = Len(inflight) - 1
Issued == inflight'[Len(inflight')]
\* the step sends one request, to the server selected, and no other
OneRequest(fn) ==
  /\ Len(inflight') = Len(inflight) + 1
  /\ SubSeq(inflight', 1, Len(inflight)) = inflight
  /\ Issued.fn = fn /\ Issued.serverUrl = serverUrl'
NoRequest == inflight' = inflight
\* the view pages through search results on the server
PagedSearch == paginationData # Absent /\ searchParams # Absent
\* the step is the completion of call i with the replies r and c2
Completes(i, r, c2) ==
  /\ inflight' = Without(inflight, i)
  /\ lastGood' = IF Result(inflight[i], r, c2).threw THEN lastGood
                 ELSE [size |-> inflight[i].size, sortParam |-> inflight[i].sortParam]
Outcomes(i) ==
  {<<r, c2>> \in ViewPageReplies(inflight[i]) \X (ViewCountReplies \cup {NoReply}) :
     Completes(i, r, c2)}
\* a request completed and the rows on screen are the ones it brought
Replaced ==
  \E i \in 1..Len(inflight) : \E o \in Outcomes(i) :
    LET res == Result(inflight[i], o[1], o[2])
    IN ~res.threw /\ patients' = res.value.patients
\* a request completed with a failure
Failed ==
  \E i \in 1..Len(inflight) : \E o \in Outcomes(i) :
    Result(inflight[i], o[1], o[2]).threw

\* C9 (as stated): every user action on the list view (page change, page-size
\* change, sort click, server change, retry) sets loading and sends exactly
\* one request, and when a request completes the view is not loading and
\* either shows an error or shows the rows the request brought.
C9_EveryActionLoads ==
  [][/\ UserAction => (loading' /\ \E fn \in PagedFns : OneRequest(fn))
     /\ Completed => (~loading' /\ (error' # Absent \/ Replaced))]_vars

\* C10 (as stated): when a request of the list view fails, the page size and
\* the sort the view holds are those of the last load that succeeded, and a
\* retry sends its request with that page size and sort.
C10_FailureKeepsLastGood ==
  [][/\ (Completed /\ Failed)
          => /\ pageSize' = lastGood'.size
             /\ getSortParam(sortField', sortDirection') = lastGood'.sortParam
     /\ (ClickRetry /\ ~NoRequest)
          => /\ Issued.size = lastGood.size
             /\ Issued.sortParam = lastGood.sortParam]_vars

\* the step is the completion of the pending call i, and its result was
\* written to the state of the view
Applies(i) ==
  /\ tags' = [tags EXCEPT !.pending = Without(@, i)]
  /\ \E o \in Outcomes(i) : ~Result(inflight[i], o[1], o[2]).threw

\* C11: only the result of the request the view issued last is ever applied:
\* whenever the result of a pending request is written to the state of the
\* view, no request was issued after it.
C11_OnlyLatestApplied ==
  [][\A i \in 1..Len(inflight) : Applies(i) => tags.pending[i] = tags.issued]_vars

(***************************************************************************)
(* Properties of EncounterList.                                            *)
(***************************************************************************)
\* C12: for every encounter row, fetchConditionsForEncounter has been called
\* exactly once if the row was ever expanded and never otherwise, whatever
\* rows were expanded and collapsed and whatever the fetch handed back.
C12_FetchedOnce ==
  \A id \in EncounterIds :
    conditionFetches.calls[id] =
      (IF conditionFetches.expansions[id] > 0 THEN 1 ELSE 0)

\* row 1 was expanded twice, its only fetch failed and left the empty list
C12_Witness ==
  /\ conditionFetches.expansions[1] = 2 /\ conditionFetches.calls[1] = 1
  /\ encounterList.expandedEncounter = Some(1)
  /\ encounterList.conditions[1] = Some(<<>>)
  /\ 1 \notin conditionFetches.pending

(***************************************************************************)
(* Properties of ServerProvider.                                           *)
(***************************************************************************)
\* C13: the server the user selects is written to local storage, and when
\* the application is loaded again the active server is the stored one if
\* that is a configured endpoint, and the default server otherwise.
C13_SelectionSurvivesReload ==
  [][/\ SelectServer => localStorage' = Some(serverUrl')
     /\ Reload => serverUrl' = (IF localStorage # Absent /\ localStorage[1] \in FHIR_SERVERS
                                 THEN localStorage[1] ELSE DefaultServer)]_vars

(***************************************************************************)
(* Properties of the requests of the data-access layer.                    *)
(***************************************************************************)
\* the values that are empty or consist of white space
BlankValues == {"", " "}
PageRequests == {ret.sent[i] : i \in {j \in DOMAIN ret.sent : ret.sent[j].kind = "page"}}

\* C14: the query of the request searchPatients sends holds a filter key
\* exactly when the caller supplied a value for it that is neither empty nor
\* blank; with only identifier supplied it holds no other filter key.
C14_OnlySuppliedFilters ==
  IsSettled({"searchPatients"})
    => \A q \in PageRequests :
         q.query = {key \in FilterKeys :
                      /\ call.searchParams[key] # Absent
                      /\ call.searchParams[key][1] \notin BlankValues}

\* C15: in every page request of fetchPatients and searchPatients, for every
\* page number >= 1 and every way the page size is supplied or resolved,
\* _count is a positive integer and _getpagesoffset is not negative (it is 0
\* for page 1).
C15_PositiveCountAndOffset ==
  IsSettled(PagedFns)
    => \A q \in PageRequests : q.count > 0 /\ q.offset >= 0

(***************************************************************************)
(* Properties of the sort state of PatientList.                            *)
(***************************************************************************)
\* C16: a click on the column that is the sort field flips the stored
\* direction, and flipping it again gives the direction back; a click on
\* another column makes it the sort field with direction ascending; no
\* other step changes the sort field or the direction.
C16_SortToggle ==
  [][/\ \A field \in SortChoices :
          ClickSortOn(field)
            => IF field = sortField
                 THEN /\ sortField' = sortField
                      /\ sortDirection' = Toggle(sortDirection)
                      /\ sortDirection' # sortDirection
                      /\ Toggle(sortDirection') = sortDirection
                 ELSE sortField' = field /\ sortDirection' = "asc"
     /\ ~ClickSort => UNCHANGED <<sortField, sortDirection>>]_vars

\* the name column was clicked, which made it ascending, and clicked again
C16_Witness ==
  /\ sortField = "name" /\ sortDirection = "desc"
  /\ clicks >= 2 /\ ~loading /\ error = Absent

(***************************************************************************)
(* C17: when GET Patient/{id} is answered with 404, the run of             *)
(* loadPatientData ends with the not-found card rendered, and when the run *)
(* fails for any other reason it ends with the error card rendered.        *)
(***************************************************************************)
C17_NotFoundOnlyOn404 ==
  [][\A i \in 1..MaxLoads, r \in PatientReplies :
       (PatientArrives(i, r) /\ fetchPatientById(r).threw)
         => Rendered(patientDetail') =
              (IF ~r.fail /\ r.status = 404 THEN "not found" ELSE "error")]_vars

(***************************************************************************)
(* C18: a submission of the creation form whose givenName is empty is      *)
(* rejected by the schema (givenName gets an error) and sends no POST.     *)
(***************************************************************************)
C18_EmptyGivenNameNotPosted ==
  [][(FormSubmit /\ createForm.values.givenName = <<>>)
       => /\ "givenName" \in createForm'.errors
          /\ formPosts'.sent = formPosts.sent
          /\ formPosts'.pending = formPosts.pending]_vars

\* a submission was rejected for the empty givenName alone
C18_Witness ==
  /\ formPosts.submits > 0
  /\ formPosts.pending = <<>> /\ formPosts.sent = 0
  /\ createForm.isSubmitted
  /\ createForm.values.givenName = <<>>
  /\ createForm.errors = {"givenName"}
  /\ formSchema(createForm.values) = {"givenName"}

(***************************************************************************)
(* C19: the list view sends no request by itself.  A step that is not a    *)
(* user action (the completion of a request, failed or not, with the       *)
(* effects that follow it, a reply to a call that goes on waiting, or a     *)
(* render with the result of another search) adds no call to the pending   *)
(* ones: after a failed request, as after any other, the next request is   *)
(* sent in a user-action step.  The completion of a failed request is      *)
(* itself a step that takes one call from the pending ones.                *)
(***************************************************************************)
\* the pending calls, whatever replies they hold
CallsOf(pending) == [i \in 1..Len(pending) |-> [pending[i] EXCEPT !.r = NoReply]]

C19_NoRequestWithoutUserAction ==
  [][~UserAction => \/ CallsOf(inflight') = CallsOf(inflight)
                    \/ \E i \in 1..Len(inflight) : inflight' = Without(inflight, i)]_vars

\* a request has failed, nothing is pending, and the view shows the error
\* with the rows of an earlier load still in its state
C19_Witness ==
  /\ error # Absent /\ ~loading /\ inflight = <<>>
  /\ ~countVerified /\ Len(patients) > 0
  /\ initialPatients = Absent

(***************************************************************************)
(* C20: a change of the local text filter sends no request and leaves      *)
(* patients, currentPage, pageSize, totalPages and totalPatients as they   *)
(* are; and whenever the list is rendered its rows are, in the order of the *)
(* loaded page, exactly the patients of that page whose name matches the   *)
(* filter: the filter is empty, or the patient has a name and the filter   *)
(* occurs, case ignored, in the family name, in a given name, in the given *)
(* names joined by spaces, or in the name as displayed.                    *)
(***************************************************************************)
NameTexts(patient) ==
  IF PatientName(patient) = Absent THEN {}
  ELSE LET name == PatientName(patient)[1]
       IN (IF name.family = Absent THEN {} ELSE {name.family[1]})
            \cup {name.given[i] : i \in 1..Len(name.given)}
            \cup {Join(name.given), formatPatientName(patient)}
NameMatches(patient, term) ==
  \/ term = <<>>
  \/ \E text \in NameTexts(patient) : Includes(toLowerCase(text), toLowerCase(term))
MatchesByName == [n \in 0..3 |-> [term \in SearchTerms |-> NameMatches(n, term)]]
\* rows is the subsequence of page made of the patients that match
MatchingOf(rows, page, term) ==
  rows = SelectSeq(page, LAMBDA patient : MatchesByName[patient % 4][term])

\* the view shows the table or the message that there are no patients
ListRendered ==
  /\ error = Absent /\ ~loading
  /\ ~(Len(patients) > 0 /\ totalPatients = 0 /\ ~countVerified)

C20_FilterIsLocal ==
  [][/\ searchTerm' # searchTerm
          => /\ NoRequest
             /\ UNCHANGED <<patients, currentPage, pageSize, totalPages, totalPatients>>
     /\ ListRendered' => MatchingOf(RowsShown', patients', searchTerm')]_vars

\* the filter is set and keeps some of the rows of the loaded page, not all
C20_Witness ==
  /\ searchTerm # <<>>
  /\ TableShown
  /\ Len(RowsShown) < Len(patients)
  /\ \E i \in 1..Len(patients) :
       PatientName(patients[i]) # Absent /\ ~NameMatches(patients[i], searchTerm)

(***************************************************************************)
(* C21: overlapping requests of the list view are neither coalesced nor    *)
(* cancelled, and the response that resolves last wins: a user action that *)
(* loads adds its own request behind the pending ones, a completion takes  *)
(* away the request that completed and no other, and a response that       *)
(* resolves without an error leaves patients, totalPatients, totalPages,   *)
(* currentPage and pageSize as that response gave them, whether or not     *)
(* requests issued later are still pending or have resolved before it.     *)
(***************************************************************************)
\* the step wrote the result res of the pending call i to the view
Written(i, res) ==
  /\ patients' = res.value.patients
  /\ totalPatients' = res.value.total
  /\ totalPages' = res.value.totalPages
  /\ currentPage' = inflight[i].page
  /\ pageSize' = inflight[i].size

C21_LastResolvedWins ==
  [][/\ (UserAction /\ ~NoRequest)
          => /\ Len(inflight') = Len(inflight) + 1
             /\ SubSeq(inflight', 1, Len(inflight)) = inflight
     /\ (UserAction /\ initialPatients = Absent) => ~NoRequest
     /\ \A i \in 1..Len(inflight) :
          \A r \in ViewPageReplies(inflight[i]), c2 \in ViewCountReplies \cup {NoReply} :
            Settle(i, r, c2)
              => /\ inflight' = Without(inflight, i)
                 /\ Result(inflight[i], r, c2).threw
                      \/ Written(i, Result(inflight[i], r, c2))]_vars

\* the same, for the views that are mounted without preloaded patients
C21_LastResolvedWinsOwnLoads ==
  [][initialPatients = Absent =>
       \A i \in 1..Len(inflight) :
          \A r \in ViewPageReplies(inflight[i]), c2 \in ViewCountReplies \cup {NoReply} :
            Settle(i, r, c2)
              => /\ inflight' = Without(inflight, i)
                 /\ Result(inflight[i], r, c2).threw
                      \/ Written(i, Result(inflight[i], r, c2))]_vars

(***************************************************************************)
(* C22: every data-access call of a view is given the selected server, so  *)
(* every request goes to one of the configured base addresses: the         *)
(* requests for the conditions of an encounter row, and the pending page   *)
(* requests of the list.                                                   *)
(***************************************************************************)
C22_EveryCallKnowsServer ==
  /\ \A base \in conditionFetches.bases : base \in FHIR_SERVERS
  /\ \A i \in 1..Len(inflight) : inflight[i].serverUrl \in FHIR_SERVERS

(***************************************************************************)
(* C23: the condition fetches of different rows are in flight              *)
(* independently: when the fetch of one row completes, the loading flag    *)
(* and the cached conditions of every other row, and the row that is       *)
(* expanded, stay as they are, and the row itself stops loading and has    *)
(* its conditions cached.                                                  *)
(***************************************************************************)
C23_RowsIndependent ==
  [][\A id \in EncounterIds, r \in ConditionReplies :
       SettleConditions(id, r)
         => /\ \A other \in EncounterIds \ {id} :
                 /\ encounterList'.loading[other] = encounterList.loading[other]
                 /\ encounterList'.conditions[other] = encounterList.conditions[other]
            /\ encounterList'.expandedEncounter = encounterList.expandedEncounter
            /\ ~encounterList'.loading[id]
            /\ encounterList'.conditions[id] # Absent]_vars

\* two rows were in flight together: row 2 was expanded first and its fetch
\* is still pending, row 1 was expanded once after it and its fetch has
\* completed
C23_Witness ==
  /\ conditionFetches.pending = {2}
  /\ encounterList.loading[2] /\ encounterList.conditions[2] = Absent
  /\ ~encounterList.loading[1] /\ encounterList.conditions[1] # Absent
  /\ conditionFetches.expansions[1] = 1 /\ conditionFetches.expansions[2] = 1
  /\ encounterList.expandedEncounter = Some(1)

(***************************************************************************)
(* C24: when fetchPatients or searchPatients returns for a page number     *)
(* >= 1 with a page size >= 1, it does not return total 0 together with a  *)
(* list of resources that is not empty; so the rows and totals the list    *)
(* view holds never meet the test 'patients returned but total is 0'.      *)
(***************************************************************************)
C24_NoZeroTotalWithRows ==
  (IsSettled(PagedFns) /\ ~ret.threw
     /\ ret.value.pageNumber >= 1 /\ ret.value.pageSize >= 1)
    => ~(ret.value.total = 0 /\ Len(ret.value.patients) > 0)

\* searchPatients got two resources with a reported total of 0 for page 2 of
\* size 3 and returned them with the total 5
C24_Witness ==
  /\ IsSettled({"searchPatients"}) /\ ~ret.threw
  /\ call.pageSize = Some(3) /\ call.pageNumber = Some(2)
  /\ call.r.total = Some(0) /\ EntryCount(call.r) = 2
  /\ Len(ret.value.patients) = 2 /\ ret.value.total = 5

\* the list view, after any of its loads: no rows with a total of 0
C24_ViewNeverVerifies == ~(Len(patients) > 0 /\ totalPatients = 0)

(***************************************************************************)
(* C25: for every load of the list view with (page, size, field,           *)
(* direction), the page request of the call carries _count = size,         *)
(* _getpagesoffset = (page - 1) * size, and as _sort the server key of the *)
(* field (name: family, gender: gender, birthDate: birthdate, lastUpdated: *)
(* _lastUpdated, id: _id) with a leading "-" exactly when the direction is *)
(* descending.                                                             *)
(***************************************************************************)
ServerKey(field) ==
  CASE field = "name" -> "family"
    [] field = "gender" -> "gender"
    [] field = "birthDate" -> "birthdate"
    [] field = "lastUpdated" -> "_lastUpdated"
    [] field = "id" -> "_id"
\* the requests the pending call q sends up to the reply to its page request
SentBy(q) == Result(q, HttpError(500), NoReply).sent

C25_RequestCarriesLoad ==
  \A i \in 1..Len(inflight) :
    LET q == inflight[i]
    IN /\ Len(SentBy(q)) = 1
       /\ SentBy(q)[1].kind = "page"
       /\ SentBy(q)[1].count = q.size
       /\ SentBy(q)[1].offset = (q.page - 1) * q.size
       /\ SentBy(q)[1].sort =
            (IF q.direction = "desc" THEN "-" \o ServerKey(q.field) ELSE ServerKey(q.field))

\* a load of page 2 with size 25, sorted by name ascending, is pending next
\* to a load sorted by date descending
C25_Witness ==
  /\ \E i \in 1..Len(inflight) :
       /\ inflight[i].fn = "fetchPatients"
       /\ inflight[i].page = 2 /\ inflight[i].size = 25
       /\ inflight[i].field = "name" /\ inflight[i].direction = "asc"
       /\ SentBy(inflight[i])[1].offset = 25 /\ SentBy(inflight[i])[1].count = 25
       /\ SentBy(inflight[i])[1].sort = "family"
  /\ \E i \in 1..Len(inflight) :
       /\ inflight[i].direction = "desc"
       /\ SentBy(inflight[i])[1].sort = "-_lastUpdated"

(***************************************************************************)
(* C26: the request a click on a sort column issues carries the sort field *)
(* and the direction the view stores for that click, when the column is    *)
(* the sort field (direction flipped) and when it is another column        *)
(* (direction ascending).                                                  *)
(***************************************************************************)
C26_RequestSortIsStoredSort ==
  [][\A field \in SortChoices :
       (ClickSortOn(field) /\ ~NoRequest)
         => /\ Issued.field = sortField' /\ Issued.direction = sortDirection'
            /\ Issued.sortParam = getSortParam(sortField', sortDirection')]_vars

(***************************************************************************)
(* C27: the list view is loading in every state in which one of its page   *)
(* requests (of loadPatients or loadSearchPage) is pending.                *)
(***************************************************************************)
C27_LoadingWhilePending ==
  (\E i \in 1..Len(inflight) : inflight[i].fn \in {"fetchPatients", "searchPatients"})
    => loading

(***************************************************************************)
(* C28: in every state of the list view that is neither loading nor in     *)
(* error, 1 <= currentPage <= totalPages.                                  *)
(***************************************************************************)
C28_CurrentPageInRange ==
  (~loading /\ error = Absent)
    => /\ currentPage >= 1
       /\ \/ Below(currentPage, totalPages)
          \/ totalPages.k = "num" /\ totalPages.n = currentPage

(***************************************************************************)
(* C29: in the patient detail, notFound and error are never both set.      *)
(***************************************************************************)
C29_NotFoundOrError ==
  ~(patientDetail.notFound /\ patientDetail.error # Absent)


(***************************************************************************)
(* C30: a change of the page size from s on page p to s2 requests the page *)
(* p2 = max(1, ceil(((p - 1) * s + 1) / s2)) with the new size, and p2 is  *)
(* the page of size s2 that holds the first record of the old page:        *)
(* (p2 - 1) * s2 < (p - 1) * s + 1 <= p2 * s2.                             *)
(***************************************************************************)
\* the first record of the page shown, counted from 1
FirstRecordShown == (currentPage - 1) * pageSize + 1

LoadsPages == initialPatients = Absent \/ PagedSearch

=============================================================================
